---- MODULE Spec2Model ----
(***************************************************************************)
(* golb: a reverse-proxy load balancer.  This module models the backend   *)
(* pool (golb/pool.go), the four selection strategies (golb/strategy.go), *)
(* the health-check cycle (golb/health.go), the request handler Lb and    *)
(* the wiring of cmd/golb/main.go.                                         *)
(*                                                                         *)
(* The specifications share the definitions:                               *)
(*   SpecSeq   the single-threaded API of a pool: AddBackend, SetAlive,    *)
(*             the connection counters, UpdateResponseTime and whole       *)
(*             SelectBackend calls, each one atomic step;                  *)
(*   SpecFair  a pool whose backends are all alive and stay alive, on      *)
(*             which SelectBackend is called again and again;              *)
(*   Spec      the concurrent system: request handlers in GetNextPeer,     *)
(*             their helper goroutines on the condition variable,          *)
(*             MarkBackendStatus callers and the health-check loop, at     *)
(*             the granularity of the mutex and of the atomic loads and    *)
(*             stores of the alive flag;                                   *)
(*   SpecLive  Spec with the fairness of the Go scheduler, of sync.Mutex   *)
(*             and of the select statement;                                *)
(*   SpecSched SpecLive in which every goroutine that can run does run;    *)
(*   SpecCancel Spec observing the moment a request context ends;          *)
(*   SpecEwma  a stream of UpdateResponseTime calls on one backend;        *)
(*   SpecMark  MarkBackendStatus called from one thread;                   *)
(*   SpecHealth the health-check cycles alone;                             *)
(*   SpecForward Spec over a pool of two backends, observing the runs of   *)
(*             the forwarder's error hook;                                 *)
(*   SpecRecover the system of main.go with health endpoints answering    *)
(*             200 and a health-check loop that runs;                      *)
(*   SpecMain  main() from the initial health check on;                    *)
(*   SpecAlpha UpdateResponseTime calls under any alpha;                   *)
(*   SpecMutex Spec with every Lock and Unlock of GetNextPeer a step.      *)
(***************************************************************************)
EXTENDS Integers, Sequences, FiniteSets

\* ------------------------------------------------------------------ bounds
\* Length of the backend list.
NumBackends == 3
\* Largest configured weight.
MaxWeight == 2
\* Largest absolute value of the active-connection counter explored.
MaxConns == 1
\* Largest health-probe duration (ns) explored.
MaxDuration == 2
\* Number of request handlers in Spec.
NumHandlers == 2
\* Helper goroutines left behind by cancelled calls in Spec.
MaxLeaked == 1
\* Length of the backend list in Spec.
ConcBackends == 1
\* Largest configured weight in SpecFair.
FairMaxWeight == 5
\* SpecFair records MaxRounds * (sum of the weights) selections.
MaxRounds == 2
\* Largest response-time sample and largest starting EWMA (ns) in SpecEwma.
MaxEwma == 21
\* Length of the backend list in SpecHealth.
HealthBackends == 2
\* Length of the backend list in SpecForward.
ForwardBackends == 2
\* Length of the backend list in SpecMain.
MainBackends == 2
\* The longest probe duration in SpecAlpha, in ns.
MaxSample == 30
\* Length of the backend list and number of distinct URLs in SpecMark.
MarkBackends == 2
MarkURLs == 2

\* --------------------------------------------------------- program constants
\* math.MinInt, the start value of maxCurrentWeight.  Only its being below
\* every current weight matters; it is kept inside TLC's integer range.
MinInt == -2147483647
\* DefaultEWMAAlpha = 0.15, kept as the fraction AlphaNum / AlphaDen.
AlphaNum == 15
AlphaDen == 100

NilBackend == 0
\* A nil *url.URL.
NilURL == 0

VARIABLES
    lbKind,     \* the pool's strategy (ServerPool.lb), fixed at construction
    backends,   \* ServerPool.backends: a sequence of Backend records
    current,    \* RoundRobinBalancer.current
    last,       \* SpecSeq: the latest SelectBackend call, its arguments and result
    hist,       \* SpecFair: the backends returned so far, oldest first
    obs,        \* the latest observed call other than SelectBackend
    mu,         \* ServerPool.mu: "free" or the goroutine holding it
    pc,         \* per handler: where it stands in Lb / GetNextPeer
    sel,        \* per handler: the locals of its SelectBackend call
    ctxDone,    \* per handler: its request context is cancelled
    peer,       \* per handler: what GetNextPeer returned
    helper,     \* per handler: the goroutine its GetNextPeer call spawned
    leaked,     \* helper goroutines whose GetNextPeer call has returned
    hc          \* the health-check goroutine

seqVars == <<last, hist, obs>>
concVars == <<mu, pc, sel, ctxDone, peer, helper, leaked, hc>>
vars == <<lbKind, backends, current, last, hist, obs,
          mu, pc, sel, ctxDone, peer, helper, leaked, hc>>

Strategies == {"round-robin", "least-connections", "least-response-time",
               "weighted-round-robin"}

\* The URL main.go gives the i-th configured backend.
BackendURL(i) == i

\* ------------------------------------------------------------ Backend record
\* NewBackend: alive false, counters zero, the weight as given.
NewBackend(u, w) ==
    [url |-> u, alive |-> FALSE, weight |-> w, activeConnections |-> 0,
     ewmaResponseTime |-> 0, currentWeight |-> 0]

SetAlive(bs, i, v) == [bs EXCEPT ![i].alive = v]

IsAlive(bs, i) == bs[i].alive

IncrementActiveConnections(bs, i) ==
    [bs EXCEPT ![i].activeConnections = @ + 1]

DecrementActiveConnections(bs, i) ==
    [bs EXCEPT ![i].activeConnections = @ - 1]

\* ------------------------------------------------------- selection strategies
\* A SelectBackend call is a loop over the backend list.  Its local
\* variables are the record sel:
\*   i         the number of loop iterations done,
\*   start     startIndex (round-robin),
\*   selected  the index of the selected backend, NilBackend for nil,
\*   acc       minConnections / minEwma / maxCurrentWeight,
\*   total     totalWeight (weighted round-robin),
\*   second    see WrrVisit,
\*   done      the call has reached its return statement.
\* A selection state st is [bs, cur, sel]: the backend list, the round-robin
\* cursor and the locals.  Each XStep runs one loop iteration (and, with the
\* last iteration, what follows the loop).

SelInit(kind, bs, cur) ==
    [i |-> 0, start |-> cur, selected |-> NilBackend,
     acc |-> IF kind = "weighted-round-robin" THEN MinInt ELSE -1,
     total |-> 0, second |-> FALSE, done |-> Len(bs) = 0]

\* RoundRobinStep without the IsAlive test: the backend under the cursor is
\* returned whatever its state.
RoundRobinStepBlind(st) ==
    LET n   == Len(st.bs)
        idx == (st.sel.start + st.sel.i) % n
    IN  [st EXCEPT !.cur = (idx + 1) % n,
                   !.sel.selected = idx + 1,
                   !.sel.i = @ + 1,
                   !.sel.done = TRUE]

\* RoundRobinStep storing idx instead of idx + 1: the cursor stays on the
\* backend just returned.
RoundRobinStepStuck(st) ==
    LET n   == Len(st.bs)
        idx == (st.sel.start + st.sel.i) % n
    IN  IF IsAlive(st.bs, idx + 1)
        THEN [st EXCEPT !.cur = idx % n,
                        !.sel.selected = idx + 1,
                        !.sel.i = @ + 1,
                        !.sel.done = TRUE]
        ELSE [st EXCEPT !.sel.i = @ + 1,
                        !.sel.done = (st.sel.i + 1 = n)]

\* RoundRobinStep storing startIndex + 1 instead of idx + 1: the cursor
\* moves on by one whatever the number of dead backends skipped.
RoundRobinStepNoSkip(st) ==
    LET n   == Len(st.bs)
        idx == (st.sel.start + st.sel.i) % n
    IN  IF IsAlive(st.bs, idx + 1)
        THEN [st EXCEPT !.cur = (st.sel.start + 1) % n,
                        !.sel.selected = idx + 1,
                        !.sel.i = @ + 1,
                        !.sel.done = TRUE]
        ELSE [st EXCEPT !.sel.i = @ + 1,
                        !.sel.done = (st.sel.i + 1 = n)]

\* RoundRobinStep storing idx + 1 without the reduction modulo the number
\* of backends.
RoundRobinStepNoWrap(st) ==
    LET n   == Len(st.bs)
        idx == (st.sel.start + st.sel.i) % n
    IN  IF IsAlive(st.bs, idx + 1)
        THEN [st EXCEPT !.cur = idx + 1,
                        !.sel.selected = idx + 1,
                        !.sel.i = @ + 1,
                        !.sel.done = TRUE]
        ELSE [st EXCEPT !.sel.i = @ + 1,
                        !.sel.done = (st.sel.i + 1 = n)]

RoundRobinStep(st) ==
    LET n   == Len(st.bs)
        idx == (st.sel.start + st.sel.i) % n
    IN  IF IsAlive(st.bs, idx + 1)
        THEN [st EXCEPT !.cur = (idx + 1) % n,
                        !.sel.selected = idx + 1,
                        !.sel.i = @ + 1,
                        !.sel.done = TRUE]
        ELSE [st EXCEPT !.sel.i = @ + 1,
                        !.sel.done = (st.sel.i + 1 = n)]

\* LeastConnectionStep with `<=` for `<`: among equal counts the last
\* backend wins instead of the first.
LeastConnectionStepLastMin(st) ==
    LET n == Len(st.bs)
        b == st.sel.i + 1
        connections == st.bs[b].activeConnections
        take == IsAlive(st.bs, b)
                /\ (st.sel.selected = NilBackend \/ connections <= st.sel.acc)
    IN  [st EXCEPT !.sel.selected = IF take THEN b ELSE @,
                   !.sel.acc = IF take THEN connections ELSE @,
                   !.sel.i = @ + 1,
                   !.sel.done = (st.sel.i + 1 = n)]

LeastConnectionStep(st) ==
    LET n == Len(st.bs)
        b == st.sel.i + 1
        connections == st.bs[b].activeConnections
        take == IsAlive(st.bs, b)
                /\ (st.sel.selected = NilBackend \/ connections < st.sel.acc)
    IN  [st EXCEPT !.sel.selected = IF take THEN b ELSE @,
                   !.sel.acc = IF take THEN connections ELSE @,
                   !.sel.i = @ + 1,
                   !.sel.done = (st.sel.i + 1 = n)]

\* LeastResponseTimeStep without the `selected == nil` disjunct: the first
\* alive backend is taken only if its EWMA beats the start value of minEwma.
LeastResponseTimeStepNoFirst(st) ==
    LET n == Len(st.bs)
        b == st.sel.i + 1
        ewma == st.bs[b].ewmaResponseTime
        minEwma == st.sel.acc
        take == IsAlive(st.bs, b)
                /\ (\/ (ewma > 0 /\ (minEwma <= 0 \/ ewma < minEwma))
                    \/ (ewma = 0 /\ minEwma > 0))
    IN  [st EXCEPT !.sel.selected = IF take THEN b ELSE @,
                   !.sel.acc = IF take THEN ewma ELSE @,
                   !.sel.i = @ + 1,
                   !.sel.done = (st.sel.i + 1 = n)]

LeastResponseTimeStep(st) ==
    LET n == Len(st.bs)
        b == st.sel.i + 1
        ewma == st.bs[b].ewmaResponseTime
        minEwma == st.sel.acc
        take == IsAlive(st.bs, b)
                /\ (\/ st.sel.selected = NilBackend
                    \/ (ewma > 0 /\ (minEwma <= 0 \/ ewma < minEwma))
                    \/ (ewma = 0 /\ minEwma > 0))
    IN  [st EXCEPT !.sel.selected = IF take THEN b ELSE @,
                   !.sel.acc = IF take THEN ewma ELSE @,
                   !.sel.i = @ + 1,
                   !.sel.done = (st.sel.i + 1 = n)]

\* WrrVisit with `>=` for `>` in the maximum test: among equal current
\* weights the last backend wins instead of the first.
WrrVisitLastMax(st) ==
    LET b == st.sel.i + 1
        w == st.bs[b].weight
        cw == st.bs[b].currentWeight + w
    IN  IF ~st.sel.second
        THEN IF IsAlive(st.bs, b) /\ w > 0
             THEN [st EXCEPT !.bs[b].currentWeight = cw,
                             !.sel.acc = IF cw >= @ THEN cw ELSE @,
                             !.sel.selected = IF cw >= st.sel.acc THEN b ELSE @,
                             !.sel.total = @ + w,
                             !.sel.i = @ + 1]
             ELSE [st EXCEPT !.sel.second = TRUE]
        ELSE IF IsAlive(st.bs, b)
             THEN [st EXCEPT !.bs[b].currentWeight = 0,
                             !.sel.second = FALSE, !.sel.i = @ + 1]
             ELSE [st EXCEPT !.sel.second = FALSE, !.sel.i = @ + 1]

\* WrrVisit raising the current weight of every backend of positive weight,
\* dead ones included; only alive ones still compete for selection.
WrrVisitCountsDead(st) ==
    LET b == st.sel.i + 1
        w == st.bs[b].weight
        cw == st.bs[b].currentWeight + w
    IN  IF ~st.sel.second
        THEN IF IsAlive(st.bs, b) /\ w > 0
             THEN [st EXCEPT !.bs[b].currentWeight = cw,
                             !.sel.acc = IF cw > @ THEN cw ELSE @,
                             !.sel.selected = IF cw > st.sel.acc THEN b ELSE @,
                             !.sel.total = @ + w,
                             !.sel.i = @ + 1]
             ELSE [st EXCEPT !.sel.second = TRUE]
        ELSE IF IsAlive(st.bs, b)
             THEN [st EXCEPT !.bs[b].currentWeight = 0,
                             !.sel.second = FALSE, !.sel.i = @ + 1]
             ELSE [st EXCEPT !.bs[b].currentWeight = cw,
                             !.sel.second = FALSE, !.sel.i = @ + 1]

\* The loop body of the weighted round-robin, for backend b = i + 1.  The Go
\* condition chain loads the alive flag once for `IsAlive() && weight > 0`
\* and, when that fails, a second time for `else if IsAlive()`: sel.second
\* says that the first test has failed and the second load is next.
WrrVisit(st) ==
    LET b == st.sel.i + 1
        w == st.bs[b].weight
        cw == st.bs[b].currentWeight + w
    IN  IF ~st.sel.second
        THEN IF IsAlive(st.bs, b) /\ w > 0
             THEN [st EXCEPT !.bs[b].currentWeight = cw,
                             !.sel.acc = IF cw > @ THEN cw ELSE @,
                             !.sel.selected = IF cw > st.sel.acc THEN b ELSE @,
                             !.sel.total = @ + w,
                             !.sel.i = @ + 1]
             ELSE [st EXCEPT !.sel.second = TRUE]
        ELSE IF IsAlive(st.bs, b)
             THEN [st EXCEPT !.bs[b].currentWeight = 0,
                             !.sel.second = FALSE, !.sel.i = @ + 1]
             ELSE [st EXCEPT !.sel.second = FALSE, !.sel.i = @ + 1]

\* WrrAdjust lowering the selected backend by its own weight instead of the
\* total weight.
WrrAdjustOwnWeight(st) ==
    IF st.sel.selected = NilBackend
    THEN [st EXCEPT !.sel.done = TRUE]
    ELSE [st EXCEPT !.bs[st.sel.selected].currentWeight =
                        @ - st.bs[st.sel.selected].weight,
                    !.sel.done = TRUE]

\* WrrAdjust returning the selected backend without lowering its current
\* weight.
WrrAdjustNoSubtract(st) ==
    [st EXCEPT !.sel.done = TRUE]

\* After the loop: nil when nothing was selected, else the selected
\* backend's current weight is lowered by the total weight.
WrrAdjust(st) ==
    IF st.sel.selected = NilBackend
    THEN [st EXCEPT !.sel.done = TRUE]
    ELSE [st EXCEPT !.bs[st.sel.selected].currentWeight = @ - st.sel.total,
                    !.sel.done = TRUE]

WeightedRoundRobinStep(st) ==
    LET v == WrrVisit(st)
    IN  IF v.sel.i = Len(st.bs) THEN WrrAdjust(v) ELSE v

SelStep(kind, st) ==
    CASE kind = "round-robin"          -> RoundRobinStep(st)
      [] kind = "least-connections"    -> LeastConnectionStep(st)
      [] kind = "least-response-time"  -> LeastResponseTimeStep(st)
      [] kind = "weighted-round-robin" -> WeightedRoundRobinStep(st)

RECURSIVE RunSelect(_, _)
RunSelect(kind, st) ==
    IF st.sel.done THEN st ELSE RunSelect(kind, SelStep(kind, st))

\* A whole SelectBackend call on a list nobody else touches: the state it
\* leaves (bs, cur) and, in sel.selected, the backend it returns.
SelectBackend(kind, bs, cur) ==
    RunSelect(kind, [bs |-> bs, cur |-> cur, sel |-> SelInit(kind, bs, cur)])

\* lrt.alpha*float64(measurement) + (1.0-lrt.alpha)*float64(oldEWMA) is
\* evaluated in float64 (two rounded products, one rounded sum) and
\* converted with int64(), which truncates.  Where the exact value is not an
\* integer it lies at least 1/100 from the next one and the rounding cannot
\* change the truncation.  Where it is an integer the float64 sum is that
\* integer or the float64 just below it.  FloatBelow lists the pairs
\* <<measurement, oldEWMA>>, both in 1..40, for which the float64
\* sum (alpha = 0.15, no fused multiply-add) is below the exact value:
\* 0.15*13 + 0.85*13 = 12.999999999999998.
FloatBelow ==
    {<<1, 21>>, <<6, 26>>, <<11, 31>>, <<13, 13>>, <<21, 21>>, <<26, 26>>,
     <<31, 31>>}

\* The values of lrt.alpha told apart, in hundredths: the smallest, the
\* default, one half, and 1 (NewLeastResponseTimeBalancer replaces any
\* value outside (0, 1] by the default).
Alphas == {1, AlphaNum, 50, AlphaDen}

\* FloatBelow for the other values of alpha: with alpha = 0.01 the float64
\* sum is below the exact integer for four pairs in 1..40; with alpha = 0.5
\* and alpha = 1 products and sum are exact.
FloatBelowAt(a) ==
    IF a = AlphaNum THEN FloatBelow
    ELSE IF a = 1 THEN {<<3, 3>>, <<6, 6>>, <<12, 12>>, <<24, 24>>}
    ELSE {}

\* int64(lrt.alpha*float64(measurement) + (1.0-lrt.alpha)*float64(oldEWMA))
\* with lrt.alpha = a / AlphaDen.
BlendAt(a, measurement, oldEWMA) ==
    LET exact == (a * measurement + (AlphaDen - a) * oldEWMA) \div AlphaDen
    IN  IF <<measurement, oldEWMA>> \in FloatBelowAt(a) THEN exact - 1
        ELSE exact

\* The same with the default alpha.
EwmaBlend(measurement, oldEWMA) == BlendAt(AlphaNum, measurement, oldEWMA)

\* UpdateAt that stores the blend of the duration as it comes: without the
\* test duration < 0, the floor of the measurement and the final clamp.
UpdateAtRaw(a, bs, i, duration) ==
    LET oldEWMA == bs[i].ewmaResponseTime
        newEWMA == IF oldEWMA <= 0 THEN duration
                   ELSE BlendAt(a, duration, oldEWMA)
    IN  [bs EXCEPT ![i].ewmaResponseTime = newEWMA]

\* LeastResponseTimeBalancer.UpdateResponseTime with lrt.alpha = a / AlphaDen.
UpdateAt(a, bs, i, duration) ==
    IF duration < 0 THEN bs
    ELSE LET measurement == IF duration <= 0 THEN 1 ELSE duration
             oldEWMA == bs[i].ewmaResponseTime
             raw == IF oldEWMA <= 0 THEN measurement
                    ELSE BlendAt(a, measurement, oldEWMA)
             newEWMA == IF raw <= 0 THEN 1 ELSE raw
         IN  [bs EXCEPT ![i].ewmaResponseTime = newEWMA]

\* UpdateResponseTime of the pool's strategy, the least-response-time
\* balancer having the default alpha; a no-op for the others.
UpdateResponseTime(kind, bs, i, duration) ==
    IF kind # "least-response-time" THEN bs
    ELSE UpdateAt(AlphaNum, bs, i, duration)

\* No SelectBackend call recorded yet.
NoCall == [called |-> FALSE]

\* No other call observed.
NoObs == [op |-> "none"]

\* main.go gives every backend weight 1 unless the strategy is the weighted
\* round-robin, where negative weights have been raised to 0.
Weights(kind) ==
    IF kind = "weighted-round-robin" THEN 0..MaxWeight ELSE {1}

\* ------------------------------------------------- the goroutines of Spec
Handlers == 1..NumHandlers

\* The locals of a SelectBackend call that is not running.
SelIdle == SelInit("round-robin", <<>>, 0)

\* The states of a helper goroutine: "none" (not started, or finished and
\* its close received), "lock" (before its Lock), "waiting" (parked in
\* Wait), "woken" (made runnable by a broadcast), "closed" (waitDone closed).
HelperStates == {"none", "lock", "waiting", "woken", "closed"}

HcIdle == [pc |-> "probe", i |-> 1, alive |-> FALSE, duration |-> 0]

\* The values of mu.
Free == [kind |-> "free", id |-> 0]
ByHandler(h) == [kind |-> "handler", id |-> h]

\* No goroutine has started.
ConcIdle ==
    /\ mu = Free
    /\ pc = [h \in Handlers |-> "idle"]
    /\ sel = [h \in Handlers |-> SelIdle]
    /\ ctxDone = [h \in Handlers |-> FALSE]
    /\ peer = [h \in Handlers |-> NilBackend]
    /\ helper = [h \in Handlers |-> "none"]
    /\ leaked = [x \in {"lock", "waiting"} |-> 0]
    /\ hc = HcIdle

\* --------------------------------------------------------------------- Spec
\* The concurrent system.  A step is what a goroutine does between two
\* points where another goroutine can see or change what it works on.  A
\* goroutine waiting for the mutex is invisible to the others, so a
\* statement sequence Lock ... Unlock whose effect on the shared state is a
\* single one (the helper's Lock; Wait, its Unlock; close, the Lock; return
\* nil of the cancellation path, the whole of MarkBackendStatus) is one
\* step, taken when the mutex is free.  SelectBackend, which loads the
\* alive flags one by one while the health check stores them, is a step per
\* loop iteration.

\* sync.Cond.Broadcast: every goroutine parked in Wait is made runnable; it
\* still has to take the mutex again before Wait returns.
BroadcastHelpers(hs) ==
    [h \in Handlers |-> IF hs[h] = "waiting" THEN "woken" ELSE hs[h]]

\* A helper left behind that a broadcast wakes only has to end (Lock,
\* Unlock, close of a channel nobody receives from): it is dropped here.
BroadcastLeaked(lk) ==
    [lk EXCEPT !["waiting"] = 0]

\* FirstWithURL without the `return` that ends the loop at the first match:
\* the last backend whose URL is u.
LastWithURL(bs, u) ==
    IF \E i \in 1..Len(bs) : bs[i].url = u
    THEN CHOOSE i \in 1..Len(bs) :
             /\ bs[i].url = u
             /\ \A j \in (i + 1)..Len(bs) : bs[j].url # u
    ELSE NilBackend

\* The index of the first backend whose URL is u, NilBackend if there is none.
FirstWithURL(bs, u) ==
    IF \E i \in 1..Len(bs) : bs[i].url = u
    THEN CHOOSE i \in 1..Len(bs) :
             /\ bs[i].url = u
             /\ \A j \in 1..(i - 1) : bs[j].url # u
    ELSE NilBackend

\* MarkBackendStatus that broadcasts whenever it is called with alive = true,
\* without looking at previousAlive.
MarkBackendStatusEager(bs, u, alive) ==
    LET i == FirstWithURL(bs, u)
    IN  IF i = NilBackend
        THEN [bs |-> bs, broadcast |-> FALSE]
        ELSE [bs |-> SetAlive(bs, i, alive), broadcast |-> alive]

\* The body of MarkBackendStatus under the mutex: the backend list it leaves
\* and whether it broadcasts.
MarkBackendStatus(bs, u, alive) ==
    LET i == FirstWithURL(bs, u)
    IN  IF i = NilBackend
        THEN [bs |-> bs, broadcast |-> FALSE]
        ELSE [bs |-> SetAlive(bs, i, alive),
              broadcast |-> (~IsAlive(bs, i) /\ alive)]

\* The weights told apart in Spec: under the weighted round-robin a backend
\* takes part in the selection (weight 1) or does not (weight 0).
ConcWeights(kind) ==
    IF kind = "weighted-round-robin" THEN {0, 1} ELSE {1}

\* The pool as NewServerPool and the AddBackend calls leave it.
InitConc ==
    /\ lbKind \in Strategies
    /\ \E n \in 0..ConcBackends :
         \E ws \in [1..n -> ConcWeights(lbKind)] :
           backends = [i \in 1..n |-> NewBackend(BackendURL(i), ws[i])]
    /\ current = 0
    /\ last = NoCall
    /\ hist = <<>>
    /\ obs = NoObs
    /\ ConcIdle

LeakedTotal == leaked["lock"] + leaked["waiting"]

\* --- the handler: Lb and GetNextPeer

\* Lb calls GetNextPeer(r.Context()): s.mu.Lock(), and the first
\* SelectBackend call starts.
GNP_Lock(h) ==
    /\ pc[h] = "idle"
    /\ mu = Free
    /\ mu' = ByHandler(h)
    /\ pc' = [pc EXCEPT ![h] = "select"]
    /\ sel' = [sel EXCEPT ![h] = SelInit(lbKind, backends, current)]
    /\ UNCHANGED <<lbKind, backends, current, seqVars, ctxDone, peer,
                   helper, leaked, hc>>

\* One loop iteration of s.lb.SelectBackend(s.backends).
GNP_SelectStep(h) ==
    /\ pc[h] = "select"
    /\ ~sel[h].done
    /\ LET st == SelStep(lbKind,
                         [bs |-> backends, cur |-> current, sel |-> sel[h]])
       IN  /\ backends' = st.bs
           /\ current' = st.cur
           /\ sel' = [sel EXCEPT ![h] = st.sel]
    /\ UNCHANGED <<lbKind, seqVars, mu, pc, ctxDone, peer, helper, leaked,
                   hc>>

\* GNP_SelectReturn without the deferred Unlock: GetNextPeer returns the
\* backend with the mutex held.
GNP_SelectReturnLocked(h) ==
    /\ pc[h] = "select"
    /\ sel[h].done
    /\ sel' = [sel EXCEPT ![h] = SelIdle]
    /\ IF sel[h].selected # NilBackend
       THEN /\ peer' = [peer EXCEPT ![h] = sel[h].selected]
            /\ pc' = [pc EXCEPT ![h] = "forward"]
            /\ UNCHANGED <<helper, mu>>
       ELSE /\ pc' = [pc EXCEPT ![h] = "wait"]
            /\ helper' = [helper EXCEPT ![h] = "lock"]
            /\ mu' = Free
            /\ UNCHANGED peer
    /\ UNCHANGED <<lbKind, backends, current, seqVars, ctxDone, leaked, hc>>

\* GNP_SelectReturn of an Lb that counts: the backend's active connections
\* are incremented before the forwarder is entered.
GNP_SelectReturnCounting(h) ==
    /\ pc[h] = "select"
    /\ sel[h].done
    /\ sel' = [sel EXCEPT ![h] = SelIdle]
    /\ mu' = Free
    /\ IF sel[h].selected # NilBackend
       THEN /\ peer' = [peer EXCEPT ![h] = sel[h].selected]
            /\ pc' = [pc EXCEPT ![h] = "forward"]
            /\ backends' = IncrementActiveConnections(backends,
                                                      sel[h].selected)
            /\ UNCHANGED helper
       ELSE /\ pc' = [pc EXCEPT ![h] = "wait"]
            /\ helper' = [helper EXCEPT ![h] = "lock"]
            /\ UNCHANGED <<peer, backends>>
    /\ UNCHANGED <<lbKind, current, seqVars, ctxDone, leaked, hc>>

\* SelectBackend has returned.  With a backend, GetNextPeer returns it (the
\* deferred Unlock runs) and Lb enters peer.ReverseProxy.ServeHTTP.  With
\* nil, waitDone is made, the helper goroutine is started, s.mu.Unlock(),
\* and the handler stands at the select statement.
GNP_SelectReturn(h) ==
    /\ pc[h] = "select"
    /\ sel[h].done
    /\ sel' = [sel EXCEPT ![h] = SelIdle]
    /\ mu' = Free
    /\ IF sel[h].selected # NilBackend
       THEN /\ peer' = [peer EXCEPT ![h] = sel[h].selected]
            /\ pc' = [pc EXCEPT ![h] = "forward"]
            /\ UNCHANGED helper
       ELSE /\ pc' = [pc EXCEPT ![h] = "wait"]
            /\ helper' = [helper EXCEPT ![h] = "lock"]
            /\ UNCHANGED peer
    /\ UNCHANGED <<lbKind, backends, current, seqVars, ctxDone, leaked, hc>>

\* The request's context is cancelled or times out.  (The flag is read by
\* the select statement only, so a cancellation before the handler has
\* reached it is seen as one at it.)
CtxEnds(h) ==
    /\ pc[h] = "wait"
    /\ ~ctxDone[h]
    /\ LeakedTotal + Cardinality({g \in Handlers : ctxDone[g]}) < MaxLeaked
    /\ ctxDone' = [ctxDone EXCEPT ![h] = TRUE]
    /\ UNCHANGED <<lbKind, backends, current, mu, pc, sel, peer, helper,
                   leaked, hc>>

CtxCancel(h) == CtxEnds(h) /\ UNCHANGED seqVars

\* GNP_CtxReturn that first receives from waitDone, so as to leave no helper
\* behind: `<-waitDone` before `return nil`.
GNP_CtxReturnJoin(h) ==
    /\ pc[h] = "wait"
    /\ ctxDone[h]
    /\ helper[h] = "closed"
    /\ mu = Free
    /\ pc' = [pc EXCEPT ![h] = "unavailable"]
    /\ helper' = [helper EXCEPT ![h] = "none"]
    /\ UNCHANGED <<lbKind, backends, current, seqVars, mu, sel, ctxDone,
                   peer, leaked, hc>>

\* select: case <-ctx.Done(): s.mu.Lock(); return nil; the deferred Unlock.
\* The helper goroutine of this call, unless it has finished, stays behind.
GNP_CtxReturn(h) ==
    /\ pc[h] = "wait"
    /\ ctxDone[h]
    /\ mu = Free
    /\ pc' = [pc EXCEPT ![h] = "unavailable"]
    /\ helper' = [helper EXCEPT ![h] = "none"]
    /\ leaked' = IF helper[h] \in {"lock", "waiting"}
                 THEN [leaked EXCEPT ![helper[h]] = @ + 1]
                 ELSE leaked
    /\ UNCHANGED <<lbKind, backends, current, seqVars, mu, sel, ctxDone,
                   peer, hc>>

\* GNP_Woken without the s.mu.Lock() after <-waitDone.
GNP_WokenNoLock(h) ==
    /\ pc[h] = "wait"
    /\ helper[h] = "closed"
    /\ pc' = [pc EXCEPT ![h] = "select"]
    /\ helper' = [helper EXCEPT ![h] = "none"]
    /\ sel' = [sel EXCEPT ![h] = SelInit(lbKind, backends, current)]
    /\ UNCHANGED <<lbKind, backends, current, seqVars, mu, ctxDone, peer,
                   leaked, hc>>

\* select: case <-waitDone: s.mu.Lock(), and the loop calls SelectBackend
\* again.
GNP_Woken(h) ==
    /\ pc[h] = "wait"
    /\ helper[h] = "closed"
    /\ mu = Free
    /\ mu' = ByHandler(h)
    /\ pc' = [pc EXCEPT ![h] = "select"]
    /\ helper' = [helper EXCEPT ![h] = "none"]
    /\ sel' = [sel EXCEPT ![h] = SelInit(lbKind, backends, current)]
    /\ UNCHANGED <<lbKind, backends, current, seqVars, ctxDone, peer,
                   leaked, hc>>

\* Lb: peer == nil, 503 Service unavailable.
Lb_Unavailable(h) ==
    /\ pc[h] = "unavailable"
    /\ pc' = [pc EXCEPT ![h] = "idle"]
    /\ ctxDone' = [ctxDone EXCEPT ![h] = FALSE]
    /\ UNCHANGED <<lbKind, backends, current, seqVars, mu, sel, peer,
                   helper, leaked, hc>>

\* The forwarder relays the backend's response.
Fwd_Done(h) ==
    /\ pc[h] = "forward"
    /\ pc' = [pc EXCEPT ![h] = "idle"]
    /\ peer' = [peer EXCEPT ![h] = NilBackend]
    /\ UNCHANGED <<lbKind, backends, current, seqVars, mu, sel, ctxDone,
                   helper, leaked, hc>>

\* The errors the forwarder hands to proxy.ErrorHandler, as the hook tells
\* them apart with errors.Is: the three it answers with 499, and any other
\* (connection refused, a timeout while proxying).
ClientErrors == {"context.Canceled", "EPIPE", "ECONNRESET"}
ForwardErrors == ClientErrors \cup {"other"}

\* ErrorHandler without its MarkBackendStatus call: the hook only answers.
ErrorHandlerNoMark(bs, u, err) ==
    [bs |-> bs, broadcast |-> FALSE,
     code |-> IF err \in ClientErrors THEN 499 ELSE 502]

\* proxy.ErrorHandler of the backend with URL u, called with err: first
\* pool.MarkBackendStatus(backendURL, false), whatever err is, then the
\* status code written to the client.
ErrorHandler(bs, u, err) ==
    LET r == MarkBackendStatus(bs, u, FALSE)
    IN  [bs |-> r.bs, broadcast |-> r.broadcast,
         code |-> IF err \in ClientErrors THEN 499 ELSE 502]

\* Fwd_Fails followed by a second attempt: after the hook Lb calls
\* GetNextPeer again for the same request.
Fwd_FailsRetry(h, err) ==
    /\ pc[h] = "forward"
    /\ mu = Free
    /\ LET r == ErrorHandler(backends, backends[peer[h]].url, err)
       IN  /\ backends' = r.bs
           /\ helper' = IF r.broadcast THEN BroadcastHelpers(helper)
                        ELSE helper
           /\ leaked' = IF r.broadcast THEN BroadcastLeaked(leaked)
                        ELSE leaked
           /\ sel' = [sel EXCEPT ![h] = SelInit(lbKind, r.bs, current)]
    /\ mu' = ByHandler(h)
    /\ pc' = [pc EXCEPT ![h] = "select"]
    /\ peer' = [peer EXCEPT ![h] = NilBackend]
    /\ UNCHANGED <<lbKind, current, ctxDone, hc>>

\* The forwarder fails with err and calls proxy.ErrorHandler, whose
\* MarkBackendStatus call is s.mu.Lock(), the body, the deferred Unlock;
\* then ServeHTTP and Lb return.
Fwd_Fails(h, err) ==
    /\ pc[h] = "forward"
    /\ mu = Free
    /\ LET r == ErrorHandler(backends, backends[peer[h]].url, err)
       IN  /\ backends' = r.bs
           /\ helper' = IF r.broadcast THEN BroadcastHelpers(helper)
                        ELSE helper
           /\ leaked' = IF r.broadcast THEN BroadcastLeaked(leaked)
                        ELSE leaked
    /\ pc' = [pc EXCEPT ![h] = "idle"]
    /\ peer' = [peer EXCEPT ![h] = NilBackend]
    /\ UNCHANGED <<lbKind, current, mu, sel, ctxDone, hc>>

Fwd_Error(h) ==
    /\ \E err \in ForwardErrors : Fwd_Fails(h, err)
    /\ UNCHANGED seqVars

\* --- the helper goroutine of handler h's GetNextPeer call

\* s.mu.Lock(); s.backendAvailable.Wait(): the goroutine joins the waiters
\* and unlocks.
Helper_Wait(h) ==
    /\ helper[h] = "lock"
    /\ mu = Free
    /\ helper' = [helper EXCEPT ![h] = "waiting"]
    /\ UNCHANGED <<lbKind, backends, current, seqVars, mu, pc, sel, ctxDone,
                   peer, leaked, hc>>

\* After a broadcast Wait takes the mutex again and returns; s.mu.Unlock();
\* close(waitDone).
Helper_Close(h) ==
    /\ helper[h] = "woken"
    /\ mu = Free
    /\ helper' = [helper EXCEPT ![h] = "closed"]
    /\ UNCHANGED <<lbKind, backends, current, seqVars, mu, pc, sel, ctxDone,
                   peer, leaked, hc>>

\* --- the helper goroutines left behind by calls that returned on ctx.Done()

Leaked_Wait ==
    /\ leaked["lock"] > 0
    /\ mu = Free
    /\ leaked' = [leaked EXCEPT !["lock"] = @ - 1, !["waiting"] = @ + 1]
    /\ UNCHANGED <<lbKind, backends, current, seqVars, mu, pc, sel, ctxDone,
                   peer, helper, hc>>

\* --- the goroutines calling pool.MarkBackendStatus(u, a)
\* u = ConcBackends + 1 is a URL of no backend.

\* MarkBackendStatus(nil, a) returns at once.
MBS_Nil ==
    /\ UNCHANGED vars

\* MarkBackendStatus(u, a): s.mu.Lock(), the loop over the backends,
\* SetAlive, Broadcast on a false -> true transition, the deferred Unlock.
MBS_Call(u, a) ==
    /\ mu = Free
    /\ LET r == MarkBackendStatus(backends, u, a)
       IN  /\ backends' = r.bs
           /\ helper' = IF r.broadcast THEN BroadcastHelpers(helper)
                        ELSE helper
           /\ leaked' = IF r.broadcast THEN BroadcastLeaked(leaked)
                        ELSE leaked
    /\ UNCHANGED <<lbKind, current, mu, pc, sel, ctxDone, peer, hc>>

MBS_Mark(u, a) == MBS_Call(u, a) /\ UNCHANGED seqVars

\* --- the health-check goroutine: HealthCheck and PerformHealthCheckCycle

\* The probe durations told apart: only the least-response-time strategy
\* reads them.
Durations(kind) ==
    IF kind = "least-response-time" THEN {0, 1} ELSE {0}

\* The cycle moves to the next backend; after the last one the ticker
\* starts the next cycle.
HcAdvance(n) ==
    [pc |-> "probe", i |-> IF hc.i >= n THEN 1 ELSE hc.i + 1,
     alive |-> FALSE, duration |-> 0]

\* isBackendAlive has returned (res, d) for backend hc.i and b.IsAlive() is
\* loaded.  With the status unchanged the iteration ends with
\* UpdateResponseTime.
HC_ProbeResult(res, d) ==
    /\ hc.pc = "probe"
    /\ hc.i <= Len(backends)
    /\ IF IsAlive(backends, hc.i) # res
       THEN /\ hc' = [hc EXCEPT !.pc = "setAlive", !.alive = res,
                                !.duration = IF res THEN d ELSE 0]
            /\ UNCHANGED backends
       ELSE /\ backends' = IF res /\ d > 0
                           THEN UpdateResponseTime(lbKind, backends, hc.i, d)
                           ELSE backends
            /\ hc' = HcAdvance(Len(backends))
    /\ UNCHANGED <<lbKind, current, mu, pc, sel, ctxDone, peer, helper,
                   leaked>>

HC_Probe ==
    /\ \E res \in BOOLEAN, d \in Durations(lbKind) : HC_ProbeResult(res, d)
    /\ UNCHANGED seqVars

\* HC_SetAlive that ends the iteration after the store, without the
\* UpdateResponseTime call that follows the status change.
HC_SetAliveNoUpdate ==
    /\ hc.pc = "setAlive"
    /\ backends' = SetAlive(backends, hc.i, hc.alive)
    /\ hc' = HcAdvance(Len(backends))
    /\ UNCHANGED <<lbKind, current, seqVars, mu, pc, sel, ctxDone, peer,
                   helper, leaked>>

\* b.SetAlive(alive): the store, with neither the pool mutex nor a
\* broadcast.
HC_Store ==
    /\ hc.pc = "setAlive"
    /\ backends' = SetAlive(backends, hc.i, hc.alive)
    /\ hc' = IF hc.alive /\ hc.duration > 0
             THEN [hc EXCEPT !.pc = "update"]
             ELSE HcAdvance(Len(backends))
    /\ UNCHANGED <<lbKind, current, mu, pc, sel, ctxDone, peer, helper,
                   leaked>>

HC_SetAlive == HC_Store /\ UNCHANGED seqVars

\* s.lb.UpdateResponseTime(b, duration) after a status change.
HC_Sample ==
    /\ hc.pc = "update"
    /\ backends' = UpdateResponseTime(lbKind, backends, hc.i, hc.duration)
    /\ hc' = HcAdvance(Len(backends))
    /\ UNCHANGED <<lbKind, current, mu, pc, sel, ctxDone, peer, helper,
                   leaked>>

HC_Update == HC_Sample /\ UNCHANGED seqVars

HandlerNext(h) ==
    \/ GNP_Lock(h)
    \/ GNP_SelectStep(h)
    \/ GNP_SelectReturn(h)
    \/ GNP_CtxReturn(h)
    \/ GNP_Woken(h)
    \/ Lb_Unavailable(h)
    \/ Fwd_Done(h)
    \/ Fwd_Error(h)

HelperNext(h) ==
    \/ Helper_Wait(h)
    \/ Helper_Close(h)

LeakedNext ==
    \/ Leaked_Wait

MarkerNext ==
    \/ MBS_Nil
    \/ \E u \in 1..(ConcBackends + 1), a \in BOOLEAN : MBS_Mark(u, a)

HealthNext ==
    \/ HC_Probe
    \/ HC_SetAlive
    \/ HC_Update

\* Every step but the end of a request context.
NextButCancel ==
    \/ \E h \in Handlers : HandlerNext(h)
    \/ \E h \in Handlers : HelperNext(h)
    \/ LeakedNext
    \/ MarkerNext
    \/ HealthNext

Next ==
    \/ NextButCancel
    \/ \E h \in Handlers : CtxCancel(h)

Spec == InitConc /\ [][Next]_vars

\* A backend takes part in a selection if it is alive and, under the weighted
\* round-robin, has a positive weight.
Selectable(kind, b) ==
    b.alive /\ (kind = "weighted-round-robin" => b.weight > 0)

\* ---------------------------------------------------------------- SpecLive
\* The concurrent system with the scheduling the Go runtime gives it: a
\* goroutine that runs SelectBackend keeps running, sync.Mutex hands the
\* mutex to a goroutine that has waited for it (starvation mode), and a
\* select statement picks among its ready cases at random, so the
\* cancellation branch, enabled again and again, is taken.

NoneSelectable ==
    \A i \in 1..Len(backends) : ~Selectable(lbKind, backends[i])

Fairness ==
    \A h \in Handlers :
        /\ WF_vars(GNP_SelectStep(h))
        /\ WF_vars(GNP_SelectReturn(h))
        /\ SF_vars(GNP_CtxReturn(h))

SpecLive == InitConc /\ [][Next]_vars /\ Fairness

\* --------------------------------------------------------------- SpecSched
\* SpecLive in which, besides, every goroutine that can run does run: a
\* helper takes the mutex and parks, a woken helper closes waitDone, a
\* handler whose waitDone is closed selects again, a handler that holds a
\* result answers.  Only the arrival of requests, the cancellation of their
\* contexts, the MarkBackendStatus callers and the health-check ticker are
\* left free.

GoroutinesRun ==
    \A h \in Handlers :
        /\ SF_vars(Helper_Wait(h))
        /\ SF_vars(Helper_Close(h))
        /\ SF_vars(GNP_Woken(h))
        /\ WF_vars(Lb_Unavailable(h))
        /\ WF_vars(Fwd_Done(h) \/ Fwd_Error(h))

SpecSched == InitConc /\ [][Next]_vars /\ Fairness /\ GoroutinesRun

\* ------------------------------------------------------------------ SpecSeq
\* The pool's API called from one thread.  last describes the SelectBackend
\* call that has just returned; any other operation clears it.

InitSeq ==
    /\ lbKind \in Strategies
    /\ backends = <<>>
    /\ current = 0
    /\ last = NoCall
    /\ hist = <<>>
    /\ obs = NoObs
    /\ ConcIdle

SeqAddBackend ==
    /\ Len(backends) < NumBackends
    /\ \E w \in Weights(lbKind) :
           backends' = Append(backends,
                              NewBackend(BackendURL(Len(backends) + 1), w))
    /\ last' = NoCall
    /\ UNCHANGED <<lbKind, current, hist, obs, concVars>>

SeqSetAlive ==
    /\ \E i \in 1..Len(backends), v \in BOOLEAN :
           backends' = SetAlive(backends, i, v)
    /\ last' = NoCall
    /\ UNCHANGED <<lbKind, current, hist, obs, concVars>>

SeqIncrement ==
    /\ lbKind = "least-connections"
    /\ \E i \in 1..Len(backends) :
           /\ backends[i].activeConnections < MaxConns
           /\ backends' = IncrementActiveConnections(backends, i)
    /\ last' = NoCall
    /\ UNCHANGED <<lbKind, current, hist, obs, concVars>>

SeqDecrement ==
    /\ lbKind = "least-connections"
    /\ \E i \in 1..Len(backends) :
           /\ backends[i].activeConnections > -MaxConns
           /\ backends' = DecrementActiveConnections(backends, i)
    /\ last' = NoCall
    /\ UNCHANGED <<lbKind, current, hist, obs, concVars>>

\* Only the least-response-time balancer keeps the sample; the other
\* balancers' UpdateResponseTime is empty.
SeqUpdateResponseTime ==
    /\ lbKind = "least-response-time"
    /\ \E i \in 1..Len(backends), d \in -1..MaxDuration :
           backends' = UpdateResponseTime(lbKind, backends, i, d)
    /\ last' = NoCall
    /\ UNCHANGED <<lbKind, current, hist, obs, concVars>>

SeqSelect ==
    /\ LET r == SelectBackend(lbKind, backends, current)
       IN  /\ backends' = r.bs
           /\ current' = r.cur
           /\ last' = [called |-> TRUE, bs |-> backends, cur |-> current,
                       ret |-> r.sel.selected]
    /\ UNCHANGED <<lbKind, hist, obs, concVars>>

NextSeq ==
    \/ SeqAddBackend
    \/ SeqSetAlive
    \/ SeqIncrement
    \/ SeqDecrement
    \/ SeqUpdateResponseTime
    \/ SeqSelect

SpecSeq == InitSeq /\ [][NextSeq]_vars

\* ------------------------------------------------------- claims on SpecSeq

\* C1: whatever the strategy, the backend list and the liveness assignment,
\* a SelectBackend call returns nil or a backend of the list whose alive flag
\* was true in the list it was given.
C1_SelectReturnsAlive ==
    last.called =>
        \/ last.ret = NilBackend
        \/ (last.ret \in 1..Len(last.bs) /\ last.bs[last.ret].alive)

\* C1 witness: a weighted round-robin call returned a backend from a list
\* holding a dead backend of larger weight before it.
C1_Witness ==
    /\ last.called
    /\ lbKind = "weighted-round-robin"
    /\ last.ret # NilBackend
    /\ \E i \in 1..Len(last.bs) :
           /\ i < last.ret
           /\ ~last.bs[i].alive
           /\ last.bs[i].weight > last.bs[last.ret].weight

RECURSIVE SumWeights(_)
SumWeights(bs) ==
    IF bs = <<>> THEN 0 ELSE bs[1].weight + SumWeights(Tail(bs))

FairWeights(kind) ==
    IF kind = "weighted-round-robin" THEN 1..FairMaxWeight ELSE {1}

InitFair ==
    /\ lbKind \in {"round-robin", "weighted-round-robin"}
    /\ backends = <<>>
    /\ current = 0
    /\ last = NoCall
    /\ hist = <<>>
    /\ obs = NoObs
    /\ ConcIdle

\* NewBackend, SetAlive(true), AddBackend, before the first selection.
FairAddBackend ==
    /\ hist = <<>>
    /\ Len(backends) < NumBackends
    /\ \E w \in FairWeights(lbKind) :
           backends' =
               Append(backends,
                      [NewBackend(BackendURL(Len(backends) + 1), w)
                           EXCEPT !.alive = TRUE])
    /\ UNCHANGED <<lbKind, current, last, hist, obs, concVars>>

FairSelect ==
    /\ Len(backends) >= 1
    /\ Len(hist) < MaxRounds * SumWeights(backends)
    /\ LET r == SelectBackend(lbKind, backends, current)
       IN  /\ backends' = r.bs
           /\ current' = r.cur
           /\ hist' = Append(hist, r.sel.selected)
    /\ UNCHANGED <<lbKind, last, obs, concVars>>

NextFair ==
    \/ FairAddBackend
    \/ FairSelect

SpecFair == InitFair /\ [][NextFair]_vars

\* ------------------------------------------------------ claims on SpecFair

\* How often backend b occurs in h[from..to].
Occurrences(h, b, from, to) ==
    Cardinality({j \in from..to : h[j] = b})

\* C8: round-robin over n backends that are all alive: from cursor 0 the
\* j-th selection is backend ((j - 1) mod n) + 1, and every window of k * n
\* consecutive selections holds each backend exactly k times.
C8_RoundRobinFair ==
    lbKind = "round-robin" =>
        LET n == Len(backends)
        IN  /\ \A j \in 1..Len(hist) : hist[j] = ((j - 1) % n) + 1
            /\ \A k \in 1..MaxRounds :
                 \A s \in 0..(Len(hist) - k * n) :
                   \A b \in 1..n : Occurrences(hist, b, s + 1, s + k * n) = k

\* C8 witness: three backends, six selections made.
C8_Witness ==
    /\ lbKind = "round-robin"
    /\ Len(backends) = 3
    /\ Len(hist) = 6

\* C9: weighted round-robin over backends of positive weight that are all
\* alive, starting from current weights 0: every window of T consecutive
\* selections, T the sum of the weights, holds backend i exactly w_i times.
C9_WrrProportional ==
    lbKind = "weighted-round-robin" =>
        LET T == SumWeights(backends)
        IN  \A s \in 0..(Len(hist) - T) :
              \A b \in 1..Len(backends) :
                Occurrences(hist, b, s + 1, s + T) = backends[b].weight

\* C9 witness: three backends of weights 2, 1, 3 and two full rounds made.
C9_Witness ==
    /\ lbKind = "weighted-round-robin"
    /\ Len(backends) = 3
    /\ backends[1].weight = 2 /\ backends[2].weight = 1
    /\ backends[3].weight = 3
    /\ Len(hist) = 12

\* The pool [A(5), B(1), C(1)] of the claim, A = 1, B = 2, C = 3.
Pool511 ==
    /\ lbKind = "weighted-round-robin"
    /\ Len(backends) = 3
    /\ backends[1].weight = 5 /\ backends[2].weight = 1
    /\ backends[3].weight = 1

\* hist is a prefix of pattern repeated.
FollowsPattern(pattern) ==
    \A j \in 1..Len(hist) : hist[j] = pattern[((j - 1) % Len(pattern)) + 1]

\* C10 as claimed: on [A(5), B(1), C(1)] the selections are A, A, C, A, B, A,
\* A, and selections 8..14 repeat the pattern.
C10_ClaimedSequence ==
    Pool511 => FollowsPattern(<<1, 1, 3, 1, 2, 1, 1>>)

\* C10 amended: on [A(5), B(1), C(1)] the selections are A, A, B, A, C, A,
\* A, and selections 8..14 repeat the pattern.
C10_SmoothSequence ==
    Pool511 => FollowsPattern(<<1, 1, 2, 1, 3, 1, 1>>)

\* C10 witness: fourteen selections made on [A(5), B(1), C(1)].
C10_Witness ==
    Pool511 /\ Len(hist) = 14

\* ---------------------------------------------------------- claims on Spec

\* A step of MarkBackendStatus (not of the health check) that turns a
\* selectable backend from dead to alive.
MarkerRevives ==
    /\ hc' = hc
    /\ \E i \in 1..Len(backends) :
         /\ ~backends[i].alive
         /\ backends'[i].alive
         /\ Selectable(lbKind, backends'[i])

\* C2: when MarkBackendStatus(url, true) performs a false -> true transition
\* while a handler is blocked in GetNextPeer (its selection returned nil, it
\* released the mutex, its context is not cancelled), that handler is woken:
\* after the step its helper has been woken or has already closed waitDone.
\* The wake-up is not lost.
C2_WakeupNotLost ==
    [][\A h \in Handlers :
          (pc[h] = "wait" /\ ~ctxDone[h] /\ MarkerRevives)
              => helper'[h] \in {"woken", "closed"}]_vars

\* C4: in no state does a goroutine stand at a store to an alive flag while
\* a handler executes SelectBackend.  (MarkBackendStatus and the error hook
\* store in a step that needs the mutex free; the health check stands at its
\* store when hc.pc = "setAlive".)
C4_SelectExcludesLivenessWrite ==
    \A h \in Handlers : pc[h] = "select" => hc.pc # "setAlive"

\* C5: no two SelectBackend executions overlap, each runs under the pool
\* mutex, and the strategy state (the round-robin cursor, the current
\* weights) is changed by no step but a step of the one handler that
\* executes SelectBackend: every call starts from the strategy state the
\* call before it left.
C5_SelectionsSerialised ==
    /\ [](\A h \in Handlers : pc[h] = "select" => mu = ByHandler(h))
    /\ [][(\/ current' # current
           \/ \E i \in 1..Len(backends) :
                 backends'[i].currentWeight # backends[i].currentWeight)
              => \E h \in Handlers :
                    /\ pc[h] = "select"
                    /\ mu = ByHandler(h)
                    /\ sel'[h] # sel[h]
                    /\ \A g \in Handlers \ {h} : pc[g] # "select"]_vars

\* C5 witness: two handlers woken by one broadcast; one runs its selection
\* again while the other, its waitDone closed, is about to take the mutex.
C5_Witness ==
    \E h, g \in Handlers :
        /\ h # g
        /\ pc[h] = "select" /\ mu = ByHandler(h)
        /\ pc[g] = "wait" /\ helper[g] = "closed"

\* C6: whenever the health check turns a backend from dead to alive, the
\* condition variable is broadcast: after the step no helper goroutine is
\* left parked in Wait.
C6_HealthCheckBroadcasts ==
    [][(hc.pc = "setAlive" /\ hc.alive /\ hc' # hc)
          => /\ \A h \in Handlers : helper'[h] # "waiting"
             /\ leaked'["waiting"] = 0]_vars

\* ------------------------------------------------------ claims on SpecLive

\* C3: in a behaviour in which no backend is ever selectable (the pool is
\* empty, or every backend is dead or of weight 0 and stays so), a
\* GetNextPeer call whose context is cancelled returns nil (Lb is then about
\* to answer 503), whatever the other handlers, the helpers, the health
\* check and MarkBackendStatus do in between.
C3_CancelReturnsNil ==
    ([]NoneSelectable) =>
        \A h \in Handlers :
            (ctxDone[h] /\ pc[h] # "unavailable") ~> (pc[h] = "unavailable")

\* C3 witness: with nothing selectable, a cancelled call has returned nil
\* and left its helper parked on the condition variable, while another
\* handler is still blocked.
C3_Witness ==
    \E h, g \in Handlers :
        /\ h # g
        /\ NoneSelectable
        /\ pc[h] = "unavailable"
        /\ leaked["waiting"] > 0
        /\ pc[g] = "wait"

\* ------------------------------------------- further claims on SpecSeq

\* The alive backends of a backend list.
AliveSet(bs) == {i \in 1..Len(bs) : bs[i].alive}

\* C11: under least-connections SelectBackend returns nil if no backend is
\* alive; otherwise it returns an alive backend whose active-connection
\* count is the smallest among the alive ones, and of those with that count
\* the earliest in the list.
C11_LeastConnections ==
    (lbKind = "least-connections" /\ last.called) =>
        LET bs == last.bs
            r == last.ret
        IN  IF AliveSet(bs) = {} THEN r = NilBackend
            ELSE /\ r \in AliveSet(bs)
                 /\ \A j \in AliveSet(bs) :
                      /\ bs[r].activeConnections <= bs[j].activeConnections
                      /\ bs[j].activeConnections = bs[r].activeConnections
                             => r <= j

\* C11 witness: the second backend is returned: the first is alive with more
\* connections, the third is alive and tied with the second.
C11_Witness ==
    /\ lbKind = "least-connections"
    /\ last.called
    /\ Len(last.bs) = 3
    /\ AliveSet(last.bs) = {1, 2, 3}
    /\ last.ret = 2
    /\ last.bs[1].activeConnections > last.bs[2].activeConnections
    /\ last.bs[3].activeConnections = last.bs[2].activeConnections

\* C12: under least-response-time, with some backend alive, SelectBackend
\* returns the first alive backend that is unsampled (EWMA = 0) if there is
\* one, and otherwise an alive backend with the smallest EWMA.
C12_UnsampledPreferred ==
    (lbKind = "least-response-time" /\ last.called
        /\ AliveSet(last.bs) # {}) =>
        LET bs == last.bs
            r == last.ret
            unsampled == {i \in AliveSet(bs) : bs[i].ewmaResponseTime = 0}
        IN  /\ r \in AliveSet(bs)
            /\ IF unsampled # {}
               THEN r \in unsampled /\ \A j \in unsampled : r <= j
               ELSE \A j \in AliveSet(bs) :
                        bs[r].ewmaResponseTime <= bs[j].ewmaResponseTime

\* C29: a round-robin SelectBackend call on a list of n backends with
\* cursor c returns the first alive backend in the cyclic order c, c+1, ...,
\* c+n-1 (mod n) and leaves the cursor at (that index + 1) mod n; if no
\* backend is alive, or n = 0, it returns nil and leaves the cursor as it
\* was.  (Indices in the model are 1-based: the backend with 0-based index
\* x is x + 1.)
C29_RoundRobinStep ==
    (last.called /\ lbKind = "round-robin") =>
        LET n == Len(last.bs)
            c == last.cur
        IN  IF AliveSet(last.bs) = {}
            THEN last.ret = NilBackend /\ current = c
            ELSE \E k \in 0..(n - 1) :
                    /\ last.bs[((c + k) % n) + 1].alive
                    /\ \A j \in 0..(k - 1) : ~last.bs[((c + j) % n) + 1].alive
                    /\ last.ret = ((c + k) % n) + 1
                    /\ current = (((c + k) % n) + 1) % n

\* A round-robin call whose cursor stood on the last of three backends,
\* dead, wrapped around, skipped the dead first backend and returned the
\* second.
C29_Witness ==
    /\ last.called
    /\ lbKind = "round-robin"
    /\ Len(last.bs) = 3
    /\ last.cur = 2
    /\ ~last.bs[3].alive /\ ~last.bs[1].alive
    /\ last.ret = 2
    /\ current = 2

\* The backends a weighted round-robin call counts: alive, of positive
\* weight.
Counted(bs) == {i \in 1..Len(bs) : bs[i].alive /\ bs[i].weight > 0}

RECURSIVE CountedWeight(_)
CountedWeight(bs) ==
    IF bs = <<>> THEN 0
    ELSE (IF bs[1].alive /\ bs[1].weight > 0 THEN bs[1].weight ELSE 0)
         + CountedWeight(Tail(bs))

\* C30: one weighted round-robin selection raises the current weight of
\* every alive backend of positive weight by its weight, returns the backend
\* whose raised current weight is maximal and lowers that one by the sum T
\* of the counted weights, sets the current weight of every alive backend of
\* weight 0 to 0, and leaves the current weight of every dead backend
\* unchanged; without a counted backend it returns nil.
C30_WrrSelectionEffect ==
    (last.called /\ lbKind = "weighted-round-robin") =>
        LET T == CountedWeight(last.bs)
            raised(i) == last.bs[i].currentWeight + last.bs[i].weight
        IN  /\ Len(backends) = Len(last.bs)
            /\ IF Counted(last.bs) = {}
               THEN last.ret = NilBackend
               ELSE /\ last.ret \in Counted(last.bs)
                    /\ \A j \in Counted(last.bs) : raised(j) <= raised(last.ret)
            /\ \A i \in 1..Len(last.bs) :
                  backends[i].currentWeight =
                      IF i \in Counted(last.bs)
                      THEN raised(i) - (IF i = last.ret THEN T ELSE 0)
                      ELSE IF last.bs[i].alive
                           THEN 0
                           ELSE last.bs[i].currentWeight

\* A weighted round-robin call on three backends: a dead one whose current
\* weight is not 0, an alive one of weight 0, and a counted one that is
\* returned.
C30_Witness ==
    /\ last.called
    /\ lbKind = "weighted-round-robin"
    /\ last.ret # NilBackend
    /\ \E i \in 1..Len(last.bs) :
          /\ ~last.bs[i].alive
          /\ last.bs[i].weight > 0
          /\ last.bs[i].currentWeight # 0
    /\ \E i \in 1..Len(last.bs) :
          last.bs[i].alive /\ last.bs[i].weight = 0

RECURSIVE SumCurrentWeight(_)
SumCurrentWeight(bs) ==
    IF bs = <<>> THEN 0
    ELSE bs[1].currentWeight + SumCurrentWeight(Tail(bs))

\* C32: under weighted round-robin, starting from current weights 0, the
\* current weights of all backends add up to 0 after every completed
\* SelectBackend call, whatever the weights and whatever liveness changes
\* happen between the calls.  (Nothing but SelectBackend writes a current
\* weight, so the sum is 0 between the calls as well.)
C32_CurrentWeightsSumToZero ==
    lbKind = "weighted-round-robin" => SumCurrentWeight(backends) = 0

\* A weighted round-robin call has returned a backend and left current
\* weights that are not all 0: a dead backend keeps a negative one and an
\* alive backend holds a positive one.
C32_Witness ==
    /\ last.called
    /\ lbKind = "weighted-round-robin"
    /\ last.ret # NilBackend
    /\ \E i, j \in 1..Len(backends) :
          /\ ~backends[i].alive
          /\ backends[i].currentWeight < 0
          /\ backends[j].alive
          /\ backends[j].currentWeight > 0

\* ---------------------------------------------------------------- SpecEwma
\* One backend of a least-response-time pool and a stream of
\* UpdateResponseTime calls that all carry the same duration.  The stream
\* starts from any EWMA a backend can hold: 0 (never sampled) or the value
\* e a first sample of e ns has stored.  obs holds the duration of the
\* stream, the EWMA before the latest call, and the parity of the number of
\* calls made.

InitEwma ==
    /\ lbKind = "least-response-time"
    /\ \E e \in 0..MaxEwma, d \in -1..MaxEwma :
         /\ backends = <<[NewBackend(BackendURL(1), 1)
                             EXCEPT !.ewmaResponseTime = e]>>
         /\ obs = [op |-> "stream", d |-> d, old |-> e, tick |-> 0]
    /\ current = 0
    /\ last = NoCall
    /\ hist = <<>>
    /\ ConcIdle

EwmaUpdate ==
    /\ obs.op \in {"stream", "update"}
    /\ backends' = UpdateResponseTime(lbKind, backends, 1, obs.d)
    /\ obs' = [op |-> "update", d |-> obs.d,
               old |-> backends[1].ewmaResponseTime, tick |-> 1 - obs.tick]
    /\ UNCHANGED <<lbKind, current, last, hist, concVars>>

NextEwma == EwmaUpdate

\* The stream does not end.
SpecEwma == InitEwma /\ [][NextEwma]_vars /\ WF_vars(EwmaUpdate)

\* ------------------------------------------------------ claims on SpecEwma

\* The measurement of a duration d >= 0: max(1, d).
Measurement(d) == IF d <= 0 THEN 1 ELSE d

\* floor(alpha*m + (1-alpha)*old) in exact arithmetic, at least 1.
ExactBlend(m, old) ==
    LET q == (AlphaNum * m + (AlphaDen - AlphaNum) * old) \div AlphaDen
    IN  IF q <= 0 THEN 1 ELSE q

\* C13: UpdateResponseTime(b, d) with d < 0 leaves the EWMA unchanged;
\* otherwise, with m = max(1, d) and old the EWMA before the call, the EWMA
\* after the call is m if old <= 0 and otherwise
\* floor(alpha*m + (1-alpha)*old), at least 1.
C13_UpdateRule ==
    obs.op = "update" =>
        LET new == backends[1].ewmaResponseTime
        IN  IF obs.d < 0 THEN new = obs.old
            ELSE IF obs.old <= 0 THEN new = Measurement(obs.d)
            ELSE new = ExactBlend(Measurement(obs.d), obs.old)

\* C14: in a stream of UpdateResponseTime calls with the same sample
\* m >= 1, from any starting EWMA, the EWMA eventually equals m, and after
\* every call it is at most max(the EWMA before the call, m) + 1.
C14_Converges ==
    /\ (obs.d >= 0) => <>(backends[1].ewmaResponseTime = Measurement(obs.d))
    /\ [][(obs'.op = "update" /\ obs'.d >= 0) =>
            LET m == Measurement(obs'.d)
                old == backends[1].ewmaResponseTime
            IN  backends'[1].ewmaResponseTime
                    <= (IF old > m THEN old ELSE m) + 1]_vars

\* ---------------------------------------------------------------- SpecMark
\* MarkBackendStatus called from one thread on a pool whose backends may
\* share a URL (AddBackend does not look at the URLs), between AddBackend
\* and SelectBackend calls.  obs holds the arguments of the latest
\* MarkBackendStatus call, the pool before it and whether it broadcast.

InitMark ==
    /\ lbKind \in Strategies
    /\ backends = <<>>
    /\ current = 0
    /\ last = NoCall
    /\ hist = <<>>
    /\ obs = NoObs
    /\ ConcIdle

MarkAddBackend ==
    /\ Len(backends) < MarkBackends
    /\ \E u \in 1..MarkURLs, w \in Weights(lbKind) :
           backends' = Append(backends, NewBackend(u, w))
    /\ obs' = NoObs
    /\ UNCHANGED <<lbKind, current, last, hist, concVars>>

MarkSelect ==
    /\ LET r == SelectBackend(lbKind, backends, current)
       IN  /\ backends' = r.bs
           /\ current' = r.cur
    /\ obs' = NoObs
    /\ UNCHANGED <<lbKind, last, hist, concVars>>

\* MarkBackendStatus(nil, alive): the early return.
MarkCallNil ==
    /\ \E a \in BOOLEAN :
           obs' = [op |-> "mark", u |-> NilURL, alive |-> a, bs |-> backends,
                   cur |-> current, broadcast |-> FALSE]
    /\ UNCHANGED <<lbKind, backends, current, last, hist, concVars>>

MarkCall ==
    /\ \E u \in 1..MarkURLs, a \in BOOLEAN :
           LET r == MarkBackendStatus(backends, u, a)
           IN  /\ backends' = r.bs
               /\ obs' = [op |-> "mark", u |-> u, alive |-> a,
                          bs |-> backends, cur |-> current,
                          broadcast |-> r.broadcast]
    /\ UNCHANGED <<lbKind, current, last, hist, concVars>>

NextMark ==
    \/ MarkAddBackend
    \/ MarkSelect
    \/ MarkCallNil
    \/ MarkCall

SpecMark == InitMark /\ [][NextMark]_vars

\* ------------------------------------------------------ claims on SpecMark

\* i is the first backend of bs, in insertion order, whose URL is u.
IsFirstMatch(bs, u, i) ==
    /\ i \in 1..Len(bs)
    /\ bs[i].url = u
    /\ \A j \in 1..(i - 1) : bs[j].url # u

\* C15: after MarkBackendStatus(u, x) with u the URL of a backend of the
\* pool, the first backend with that URL has alive = x; if it had alive = x
\* before the call, the call changed nothing and did not broadcast; the call
\* broadcasts exactly if it turned the backend from dead to alive.
C15_MarkRoundTrip ==
    obs.op = "mark" =>
        \A i \in 1..Len(obs.bs) :
            IsFirstMatch(obs.bs, obs.u, i) =>
                /\ backends[i].alive = obs.alive
                /\ obs.bs[i].alive = obs.alive
                       => /\ backends = obs.bs
                          /\ current = obs.cur
                          /\ ~obs.broadcast
                /\ obs.broadcast <=> (~obs.bs[i].alive /\ obs.alive)

\* C15 witness: MarkBackendStatus(u, true) has been called on a backend
\* that was alive already.
C15_Witness ==
    /\ obs.op = "mark"
    /\ obs.alive
    /\ \E i \in 1..Len(obs.bs) :
         IsFirstMatch(obs.bs, obs.u, i) /\ obs.bs[i].alive

\* C16: MarkBackendStatus changes nothing but the alive flag of the first
\* backend whose URL is the argument: the list keeps its length, every other
\* backend and every other field of that backend are as before the call,
\* and so is the round-robin cursor; with a nil URL or a URL of no backend
\* nothing changes and nothing is broadcast.
C16_MarkFrame ==
    obs.op = "mark" =>
        /\ current = obs.cur
        /\ Len(backends) = Len(obs.bs)
        /\ \A j \in 1..Len(obs.bs) :
             IF IsFirstMatch(obs.bs, obs.u, j)
             THEN backends[j] = [obs.bs[j] EXCEPT !.alive = backends[j].alive]
             ELSE backends[j] = obs.bs[j]
        /\ (\A j \in 1..Len(obs.bs) : obs.bs[j].url # obs.u)
               => backends = obs.bs /\ ~obs.broadcast

\* C16 witness: two backends share the URL of the call, both were dead, and
\* MarkBackendStatus(u, true) revived the first and left the second dead.
C16_Witness ==
    /\ obs.op = "mark"
    /\ Len(obs.bs) = 2
    /\ obs.bs[1].url = obs.u /\ obs.bs[2].url = obs.u
    /\ ~obs.bs[1].alive /\ ~obs.bs[2].alive
    /\ backends[1].alive /\ ~backends[2].alive

\* -------------------------------------------------------------- SpecHealth
\* The health-check cycles alone, as main.go runs the first one before it
\* starts to serve: no handler, no MarkBackendStatus call.  obs holds the
\* latest probe: the backend, what the GET brought and the duration
\* measured.

\* What the GET of isBackendAlive can bring.
ProbeOutcomes ==
    {"request-error", "transport-error", "timeout", "status-200",
     "status-204", "status-500"}

\* isBackendAlive with any 2xx status taken for healthy.
IsBackendAlive2xx(outcome, d) ==
    [alive |-> outcome \in {"status-200", "status-204"},
     duration |-> IF outcome = "request-error" THEN 0 ELSE d]

\* isBackendAlive: (false, 0) if the request cannot be built, (false,
\* duration) on a transport error, a timeout or a status other than 200,
\* (true, duration) on status 200.
IsBackendAlive(outcome, d) ==
    [alive |-> outcome = "status-200",
     duration |-> IF outcome = "request-error" THEN 0 ELSE d]

InitHealth ==
    /\ lbKind \in Strategies
    /\ \E n \in 1..HealthBackends :
         \E ws \in [1..n -> ConcWeights(lbKind)] :
           backends = [i \in 1..n |-> NewBackend(BackendURL(i), ws[i])]
    /\ current = 0
    /\ last = NoCall
    /\ hist = <<>>
    /\ obs = NoObs
    /\ ConcIdle

HealthProbe ==
    /\ \E outcome \in ProbeOutcomes, d \in 0..MaxDuration :
         LET r == IsBackendAlive(outcome, d)
         IN  /\ HC_ProbeResult(r.alive, r.duration)
             /\ obs' = [op |-> "probe", i |-> hc.i, outcome |-> outcome,
                        d |-> r.duration]
    /\ UNCHANGED <<last, hist>>

NextHealth ==
    \/ HealthProbe
    \/ HC_SetAlive
    \/ HC_Update

SpecHealth == InitHealth /\ [][NextHealth]_vars

\* ---------------------------------------------------- claims on SpecHealth

\* The cycle has finished with the backend of the latest probe.
Processed == obs.op = "probe" /\ hc.pc = "probe"

\* C17: once a cycle has processed a backend, the backend is alive if and
\* only if its probe returned status 200; a request that could not be
\* built, a transport error, a timeout and any other status leave it dead.
C17_AliveIffStatus200 ==
    Processed => (backends[obs.i].alive <=> obs.outcome = "status-200")

\* C17 witness: a backend that was alive has been probed with a status
\* other than 200 and the cycle has stored dead.
C17_Witness ==
    /\ Processed
    /\ obs.outcome = "status-204"
    /\ ~backends[obs.i].alive
    /\ \E j \in 1..Len(backends) : j # obs.i /\ backends[j].alive

\* C18: once a cycle has processed a backend whose probe returned 200, the
\* backend is alive and its EWMA is at least 1, whatever the strategy and
\* the duration measured.
C18_ProbedHasEwma ==
    (Processed /\ obs.outcome = "status-200") =>
        /\ backends[obs.i].alive
        /\ backends[obs.i].ewmaResponseTime >= 1

\* C18 as the code has it: the backend is alive; under least-response-time
\* its EWMA is at least 1 if the duration measured was positive; under the
\* other strategies, whose UpdateResponseTime is empty, the EWMA stays 0.
C18_ProbedHasEwmaIfSampled ==
    (Processed /\ obs.outcome = "status-200") =>
        /\ backends[obs.i].alive
        /\ (lbKind = "least-response-time" /\ obs.d > 0)
               => backends[obs.i].ewmaResponseTime >= 1
        /\ lbKind # "least-response-time"
               => backends[obs.i].ewmaResponseTime = 0

\* C18 witness: under least-response-time the second backend of the pool
\* has answered 200 after a positive duration and holds a positive EWMA.
C18_Witness ==
    /\ Processed
    /\ lbKind = "least-response-time"
    /\ obs.outcome = "status-200"
    /\ obs.d > 0
    /\ obs.i = 2
    /\ backends[2].ewmaResponseTime >= 1

\* -------------------------------------------------------------- SpecCancel
\* Spec in which obs holds, for the latest request context that ended, the
\* handler, whether a backend was selectable at that moment, and where the
\* helper goroutine of the call stood.

CancelObserved(h) ==
    /\ CtxEnds(h)
    /\ obs' = [op |-> "cancel", h |-> h,
               selectable |-> \E i \in 1..Len(backends) :
                                  Selectable(lbKind, backends[i]),
               helper |-> helper[h]]
    /\ UNCHANGED <<last, hist>>

NextCancel ==
    \/ NextButCancel
    \/ \E h \in Handlers : CancelObserved(h)

SpecCancel == InitConc /\ [][NextCancel]_vars

\* ---------------------------------------------------- claims on SpecCancel

\* C19: Lb answers 503 and calls no forwarder exactly when GetNextPeer has
\* returned nil, and GetNextPeer returns nil only for a request whose
\* context has ended while the pool was empty or no backend was selectable:
\* a call that was blocked, its helper not woken, when its context ended
\* returns nil only if no backend was selectable at that moment.
C19_UnavailableOnlyIfNoneSelectable ==
    /\ [](\A h \in Handlers :
            /\ pc[h] = "unavailable" => peer[h] = NilBackend
            /\ pc[h] = "forward" => peer[h] # NilBackend)
    /\ [][\A h \in Handlers :
            (pc[h] # "unavailable" /\ pc'[h] = "unavailable")
                => /\ pc[h] = "wait"
                   /\ ctxDone[h]
                   /\ (obs.op = "cancel" /\ obs.h = h
                          /\ obs.helper \in {"lock", "waiting"})
                         => ~obs.selectable]_vars

\* --------------------------------------------------- claims on SpecSched

\* The pool of the single-backend tests: round-robin, one backend as
\* NewBackend and AddBackend leave it, no health-check cycle under way, no
\* request context cancelled.
SingleFreshBackend ==
    /\ lbKind = "round-robin"
    /\ backends = <<NewBackend(BackendURL(1), 1)>>
    /\ hc = HcIdle
    /\ \A h \in Handlers : ~ctxDone[h]

\* C20: as long as the pool stays that of the single-backend tests, every
\* Lb call gets the backend from GetNextPeer and forwards the request to
\* it.
C20_SingleBackendServes ==
    ([]SingleFreshBackend) =>
        \A h \in Handlers : (pc[h] = "select") ~> (pc[h] = "forward")

\* ------------------------------------------------------------- SpecForward
\* The concurrent system over a pool of 1..ForwardBackends backends, two of
\* which may have been configured with the same URL (main.go adds one
\* backend per entry of cfg.BackendServers and compares nothing), serving
\* requests whose contexts do not end while they wait for a backend.  obs
\* holds the latest run of a forwarder's error hook: the backend b the
\* handler was forwarding to, the error, the status code written to the
\* client, and b's alive flag before and after the hook.  obs is cleared by
\* the MarkBackendStatus call or health-check store that leaves b alive.

InitForward ==
    /\ lbKind \in Strategies
    /\ \E n \in 1..ForwardBackends, sameURL \in BOOLEAN :
         \E ws \in [1..n -> ConcWeights(lbKind)] :
           backends = [i \in 1..n |->
                          NewBackend(IF sameURL THEN BackendURL(1)
                                     ELSE BackendURL(i), ws[i])]
    /\ current = 0
    /\ last = NoCall
    /\ hist = <<>>
    /\ obs = NoObs
    /\ ConcIdle

\* obs after a step that leaves the backend list bs.
ClearedIfAlive(bs) ==
    IF obs.op = "error" /\ bs[obs.b].alive THEN NoObs ELSE obs

ErrorObserved(h, err) ==
    /\ Fwd_Fails(h, err)
    /\ obs' = [op |-> "error", b |-> peer[h], err |-> err,
               code |-> ErrorHandler(backends, backends[peer[h]].url,
                                     err).code,
               before |-> backends[peer[h]].alive,
               after |-> backends'[peer[h]].alive]
    /\ UNCHANGED <<last, hist>>

MarkObserved(u, a) ==
    /\ MBS_Call(u, a)
    /\ obs' = ClearedIfAlive(backends')
    /\ UNCHANGED <<last, hist>>

StoreObserved ==
    /\ HC_Store
    /\ obs' = ClearedIfAlive(backends')
    /\ UNCHANGED <<last, hist>>

NextForward ==
    \/ \E h \in Handlers :
          \/ GNP_Lock(h)
          \/ GNP_SelectStep(h)
          \/ GNP_SelectReturn(h)
          \/ GNP_Woken(h)
          \/ Fwd_Done(h)
          \/ \E err \in ForwardErrors : ErrorObserved(h, err)
    \/ \E h \in Handlers : HelperNext(h)
    \/ MBS_Nil
    \/ \E u \in 1..ForwardBackends, a \in BOOLEAN : MarkObserved(u, a)
    \/ HC_Probe
    \/ StoreObserved
    \/ HC_Update

SpecForward == InitForward /\ [][NextForward]_vars

\* --------------------------------------------------- claims on SpecForward

\* C21: when the error hook runs because of a client-initiated cancellation
\* or a connection reset (context.Canceled, EPIPE, ECONNRESET), the client
\* gets 499 and the alive flag of the backend is left as it was: a backend
\* that was alive before the hook is alive after it.
C21_ClientErrorKeepsAlive ==
    (obs.op = "error" /\ obs.err \in ClientErrors)
        => (obs.code = 499 /\ obs.after = obs.before)

\* The hook has run for an error that is none of the three client errors
\* and the backend it ran for has not been made alive since.
TransportErrorSeen == obs.op = "error" /\ obs.err \notin ClientErrors

\* The backend the hook ran for is the one MarkBackendStatus finds under
\* its URL.
HookFindsBackend ==
    FirstWithURL(backends, backends[obs.b].url) = obs.b

\* C22 as stated: after the error hook has run for a transport error on
\* backend b, b is dead and the client got 502, and until a health-check
\* cycle or MarkBackendStatus(b.url, true) makes b alive again no
\* SelectBackend call picks b and no GetNextPeer call returns it.
C22_ErrorMarksDead ==
    /\ [](TransportErrorSeen
            => /\ obs.code = 502
               /\ ~obs.after
               /\ ~backends[obs.b].alive
               /\ \A h \in Handlers :
                      pc[h] = "select" => sel[h].selected # obs.b)
    /\ [][(TransportErrorSeen /\ obs' = obs)
            => \A h \in Handlers :
                   peer'[h] = obs.b => peer[h] = obs.b]_vars

\* C22, amended: the same for a backend b that is the first of the list
\* with its URL, as every backend is when the configured URLs differ.
C22_ErrorMarksFirstDead ==
    /\ []((TransportErrorSeen /\ HookFindsBackend)
            => /\ obs.code = 502
               /\ ~obs.after
               /\ ~backends[obs.b].alive
               /\ \A h \in Handlers :
                      pc[h] = "select" => sel[h].selected # obs.b)
    /\ [][(TransportErrorSeen /\ HookFindsBackend /\ obs' = obs)
            => \A h \in Handlers :
                   peer'[h] = obs.b => peer[h] = obs.b]_vars

\* The hook has marked an alive backend dead and answered 502, and a later
\* GetNextPeer call is selecting while the backend is still dead.
C22_Witness ==
    /\ TransportErrorSeen
    /\ HookFindsBackend
    /\ obs.before
    /\ ~backends[obs.b].alive
    /\ \E h \in Handlers : pc[h] = "select" /\ sel[h].i > 0

\* C24: no retry.  Handling one request (from the call of GetNextPeer to
\* the return of Lb) calls GetNextPeer once, at its start, and invokes one
\* forwarder once: a handler enters the forwarder only from the return of
\* its GetNextPeer call, a handler in GetNextPeer came from the start of
\* the request or from the wait inside the same call, and when the
\* forwarder returns, with or without error, the request is over.
C24_NoRetry ==
    [][\A h \in Handlers :
         /\ (pc[h] = "forward" /\ pc'[h] # "forward") => pc'[h] = "idle"
         /\ (pc[h] = "forward" /\ pc'[h] = "forward") => peer'[h] = peer[h]
         /\ (pc[h] # "forward" /\ pc'[h] = "forward") => pc[h] = "select"
         /\ (pc[h] # "select" /\ pc'[h] = "select")
               => (pc[h] = "idle" \/ (pc[h] = "wait" /\ helper[h] = "closed"))
      ]_vars

\* A forwarder's error hook has run and every request is over, while
\* another backend is alive.
C24_Witness ==
    /\ obs.op = "error"
    /\ obs.before
    /\ ~backends[obs.b].alive
    /\ \E i \in 1..Len(backends) : backends[i].alive
    /\ \A h \in Handlers : pc[h] = "idle"

\* ------------------------------------------------ further claims on Spec

\* The handlers whose forwarder is serving a request dispatched to backend b.
InFlight(b) == {h \in Handlers : pc[h] = "forward" /\ peer[h] = b}

\* C23: every dispatch increments the backend's active_connections once
\* before the forwarder is invoked and decrements it once when the request
\* completes or errors: in every state each backend's counter is the number
\* of requests in flight to it, hence 0 when none is and never negative.
C23_ConnectionsCounted ==
    \A b \in 1..Len(backends) :
        backends[b].activeConnections = Cardinality(InFlight(b))

\* C27: the pool mutex is never held across blocking network I/O.  No
\* handler holds it while its forwarder serves the request (the mutex is
\* held by a handler inside SelectBackend only), and the health prober,
\* which takes the mutex nowhere, does not hold it while a probe is in
\* flight.
C27_NoLockAcrossIO ==
    /\ \A h \in Handlers : pc[h] = "forward" => mu # ByHandler(h)
    /\ mu.kind = "handler" => pc[mu.id] = "select"
    /\ mu.kind \in {"free", "handler"}

\* A forwarder is serving a request and a probe is in flight while another
\* handler holds the mutex.
C27_Witness ==
    /\ \E h \in Handlers : pc[h] = "forward" /\ mu.kind = "handler"
    /\ hc.pc = "probe"

\* C31: under round-robin, with a list of n >= 1 backends, the cursor is
\* in 0..n-1 in every reachable state, whatever the interleaving of
\* selections and liveness changes.  (SpecForward: handlers selecting
\* step by step over two backends while MarkBackendStatus and the
\* health check change the alive flags.)
C31_CursorInRange ==
    (lbKind = "round-robin" /\ Len(backends) >= 1) =>
        current \in 0..(Len(backends) - 1)

\* A round-robin call has returned the last of at least two backends and
\* the cursor has wrapped around to 0.
C31_Witness ==
    /\ lbKind = "round-robin"
    /\ Len(backends) >= 2
    /\ current = 0
    /\ \E h \in Handlers :
          pc[h] = "forward" /\ peer[h] = Len(backends)

\* The handlers inside GetNextPeer.
InGetNextPeer == {h \in Handlers : pc[h] \in {"select", "wait"}}

\* The goroutines parked in s.backendAvailable.Wait().
ParkedWaiters ==
    Cardinality({h \in Handlers : helper[h] = "waiting"}) + leaked["waiting"]

\* C34: every helper goroutine that a GetNextPeer call starts has ended
\* when that call returns, also when it returns nil on a cancelled context
\* and no broadcast follows: no goroutine is left behind, and the number of
\* goroutines parked on the condition variable never exceeds the number of
\* handlers inside GetNextPeer.
C34_NoLeakedWaiters ==
    /\ LeakedTotal = 0
    /\ \A h \in Handlers : h \notin InGetNextPeer => helper[h] = "none"
    /\ ParkedWaiters <= Cardinality(InGetNextPeer)

\* ------------------------------------------------------------- SpecRecover
\* The system main.go builds, from a point on from which every health
\* endpoint answers 200: handlers, their helpers, the forwarders' error
\* hooks (the only callers of MarkBackendStatus in main.go) and the
\* health-check loop, whose every probe returns true.  The health-check
\* goroutine runs: the ticker fires, and an iteration that has begun ends.

HealthyProbe ==
    /\ \E d \in Durations(lbKind) : HC_ProbeResult(TRUE, d)
    /\ UNCHANGED seqVars

\* The steps of a handler and of its helper in a system in which
\* MarkBackendStatus is called by the error hooks alone, hence with false
\* alone: Broadcast is never called, no parked helper is made runnable, and
\* Helper_Close and GNP_Woken are never enabled.
HandlerNextUnwoken(h) ==
    \/ GNP_Lock(h)
    \/ GNP_SelectStep(h)
    \/ GNP_SelectReturn(h)
    \/ GNP_CtxReturn(h)
    \/ Lb_Unavailable(h)
    \/ Fwd_Done(h)
    \/ Fwd_Error(h)

NextRecover ==
    \/ \E h \in Handlers : HandlerNextUnwoken(h)
    \/ \E h \in Handlers : Helper_Wait(h)
    \/ LeakedNext
    \/ \E h \in Handlers : CtxCancel(h)
    \/ HealthyProbe
    \/ HC_SetAlive
    \/ HC_Update

SpecRecover ==
    /\ InitConc
    /\ [][NextRecover]_vars
    /\ Fairness
    /\ GoroutinesRun
    /\ WF_vars(HealthyProbe) /\ WF_vars(HC_SetAlive) /\ WF_vars(HC_Update)

\* --------------------------------------------------- claims on SpecRecover

\* C25: automatic recovery.  A dead backend whose health endpoint answers
\* 200 is made alive again by the health-check loop, and it is returned by
\* GetNextPeer again: a call that is waiting for a backend returns one
\* unless its context ends (the pool has one backend; under the weighted
\* round-robin its weight is positive).
C25_Recovery ==
    /\ \A b \in 1..ConcBackends :
          (b <= Len(backends) /\ ~backends[b].alive)
              ~> (b <= Len(backends) /\ backends[b].alive)
    /\ \A h \in Handlers :
          (pc[h] = "wait" /\ \E b \in 1..Len(backends) : backends[b].weight > 0)
              ~> (pc[h] = "forward" \/ ctxDone[h])

\* ---------------------------------------------------------------- SpecMain
\* main() from the initial health check on (main.go:112-169), with the
\* goroutines it starts.  obs is the main goroutine: pc is where it stands
\* ("cycle": in pool.PerformHealthCheckCycle, line 119; "check": at the
\* GetNextPeer call of line 125; "wait": in that call, SelectBackend having
\* returned nil, until the 5 s timeout; "start": before `go pool.HealthCheck`;
\* "listen": before the goroutine that calls ListenAndServe; "serve": the
\* server accepts requests; "fatal": log.Fatal has ended the process), i is
\* the backend the initial cycle probes next, and loop is the HealthCheck
\* goroutine: "none" (not started), "ticker" (waiting for ticker.C) or
\* "cycle" (in PerformHealthCheckCycle, at hc); got is what the GetNextPeer
\* call of line 125 returned: "pending" before it has, "backend" or "nil".

InitMain ==
    /\ lbKind \in Strategies
    /\ \E n \in 0..MainBackends :
         \E ws \in [1..n -> ConcWeights(lbKind)] :
           backends = [i \in 1..n |-> NewBackend(BackendURL(i), ws[i])]
    /\ current = 0
    /\ last = NoCall
    /\ hist = <<>>
    /\ obs = [op |-> "main", pc |-> "cycle", i |-> 1, loop |-> "none",
              got |-> "pending"]
    /\ ConcIdle

\* One iteration of the loop of performHealthCheckCycle on backend i, the
\* probe having returned (res, d).
CycleIteration(kind, bs, i, res, d) ==
    LET stored == IF IsAlive(bs, i) # res THEN SetAlive(bs, i, res) ELSE bs
    IN  IF res /\ d > 0 THEN UpdateResponseTime(kind, stored, i, d)
        ELSE stored

\* The initial cycle probes its next backend.
Main_Probe ==
    /\ obs.i <= Len(backends)
    /\ \E res \in BOOLEAN, d \in Durations(lbKind) :
         backends' = CycleIteration(lbKind, backends, obs.i, res, d)
    /\ obs' = [obs EXCEPT !.i = @ + 1]
    /\ UNCHANGED <<lbKind, current, last, hist, concVars>>

\* `go pool.PerformHealthCheckCycle(...)`: main goes on while the initial
\* cycle runs.
Main_CycleDetached ==
    /\ obs.pc = "cycle"
    /\ obs' = [obs EXCEPT !.pc = "check"]
    /\ UNCHANGED <<lbKind, backends, current, last, hist, concVars>>

\* pool.PerformHealthCheckCycle returns to main.
Main_CycleDone ==
    /\ obs.pc = "cycle"
    /\ obs.i > Len(backends)
    /\ obs' = [obs EXCEPT !.pc = "check"]
    /\ UNCHANGED <<lbKind, backends, current, last, hist, concVars>>

\* Main_Check without the test of the result: main goes on to start the
\* health loop and the server whatever GetNextPeer returned.
Main_CheckUngated ==
    /\ obs.pc = "check"
    /\ LET st == SelectBackend(lbKind, backends, current)
       IN  /\ backends' = st.bs
           /\ current' = st.cur
           /\ obs' = [obs EXCEPT !.pc = "start",
                                 !.got = IF st.sel.selected = NilBackend
                                         THEN "nil" ELSE "backend"]
    /\ UNCHANGED <<lbKind, last, hist, concVars>>

\* pool.GetNextPeer(ctx) with a 5 s timeout: SelectBackend returns a
\* backend and main goes on, or it returns nil and the call waits in its
\* select statement.
Main_Check ==
    /\ obs.pc = "check"
    /\ LET st == SelectBackend(lbKind, backends, current)
       IN  /\ backends' = st.bs
           /\ current' = st.cur
           /\ obs' = IF st.sel.selected = NilBackend
                     THEN [obs EXCEPT !.pc = "wait"]
                     ELSE [obs EXCEPT !.pc = "start", !.got = "backend"]
    /\ UNCHANGED <<lbKind, last, hist, concVars>>

\* The 5 s are over: case <-ctx.Done(), GetNextPeer returns nil, and
\* log.Fatal ends the process, whether backends are configured or not.
Main_Timeout ==
    /\ obs.pc = "wait"
    /\ obs' = [obs EXCEPT !.pc = "fatal", !.got = "nil"]
    /\ UNCHANGED <<lbKind, backends, current, last, hist, concVars>>

\* go pool.HealthCheck(cfg): the client, the ticker.
Main_StartHealthCheck ==
    /\ obs.pc = "start"
    /\ obs' = [obs EXCEPT !.pc = "listen", !.loop = "ticker"]
    /\ UNCHANGED <<lbKind, backends, current, last, hist, concVars>>

\* go func() { server.ListenAndServe() }().
Main_Serve ==
    /\ obs.pc = "listen"
    /\ obs' = [obs EXCEPT !.pc = "serve"]
    /\ UNCHANGED <<lbKind, backends, current, last, hist, concVars>>

\* for range ticker.C: a tick is received and a cycle begins.
Loop_Tick ==
    /\ obs.loop = "ticker"
    /\ obs' = [obs EXCEPT !.loop = "cycle"]
    /\ UNCHANGED <<lbKind, backends, current, last, hist, concVars>>

\* A step of the cycle of the HealthCheck goroutine; with the end of the
\* iteration on the last backend PerformHealthCheckCycle returns and the
\* goroutine waits for the next tick.
Loop_Step ==
    /\ obs.loop = "cycle"
    /\ \/ \E res \in BOOLEAN, d \in Durations(lbKind) : HC_ProbeResult(res, d)
       \/ HC_Store
       \/ HC_Sample
    /\ obs' = IF hc'.pc = "probe" /\ hc.i >= Len(backends)
              THEN [obs EXCEPT !.loop = "ticker"]
              ELSE obs
    /\ UNCHANGED <<last, hist>>

\* The server dispatches requests to Lb once it listens.
Serving ==
    /\ obs.pc = "serve"
    /\ \/ \E h \in Handlers : HandlerNextUnwoken(h)
       \/ \E h \in Handlers : CtxCancel(h)

NextMain ==
    \/ Main_Probe
    \/ Main_CycleDone
    \/ Main_Check
    \/ Main_Timeout
    \/ Main_StartHealthCheck
    \/ Main_Serve
    \/ Loop_Tick
    \/ Loop_Step
    \/ Serving
    \/ \E h \in Handlers : Helper_Wait(h)
    \/ LeakedNext

SpecMain == InitMain /\ [][NextMain]_vars

\* ------------------------------------------------------ claims on SpecMain

\* C26: health-check cycles never overlap and are ordered with serving:
\* when the server accepts requests, and whenever a handler is at work, the
\* initial cycle has probed every backend, and the cycle of the HealthCheck
\* goroutine is never in progress while the initial cycle has backends left
\* to probe.
C26_CyclesOrdered ==
    /\ obs.pc = "serve" => obs.i > Len(backends)
    /\ (\E h \in Handlers : pc[h] # "idle") => obs.pc = "serve"
    /\ obs.loop = "cycle" => obs.i > Len(backends)
    /\ obs.loop # "none" => obs.pc \in {"listen", "serve"}

\* A request is being forwarded while a cycle of the HealthCheck goroutine
\* is at its second backend.
C26_Witness ==
    /\ obs.pc = "serve"
    /\ obs.loop = "cycle"
    /\ hc.i = 2
    /\ \E h \in Handlers : pc[h] = "forward"

\* C35: the health loop is started and requests are accepted only after
\* the GetNextPeer call that follows the initial cycle has returned a
\* backend, which it does exactly when a backend is selectable at the end
\* of the initial cycle; when none is, nothing changes the backends while
\* the call waits, it returns nil, and the process ends with log.Fatal: no
\* health loop, no request served, no further step.
C35_StartupGate ==
    /\ []((\/ obs.loop # "none"
           \/ obs.pc \in {"start", "listen", "serve"}
           \/ \E h \in Handlers : pc[h] # "idle") => obs.got = "backend")
    /\ [](obs.pc \in {"wait", "fatal"} =>
             /\ obs.loop = "none"
             /\ NoneSelectable
             /\ \A h \in Handlers : pc[h] = "idle")
    /\ [][obs.pc = "check" =>
             obs'.pc = IF NoneSelectable THEN "wait" ELSE "start"]_vars
    /\ [][obs.pc = "wait" =>
             /\ backends' = backends
             /\ obs'.pc = "fatal"
             /\ obs'.got = "nil"]_vars
    /\ [][obs.pc # "fatal"]_vars

\* Both backends were probed dead by the initial cycle, the GetNextPeer
\* call has timed out, and the process has ended.
C35_Witness ==
    /\ obs.op = "main"
    /\ obs.pc = "fatal"
    /\ obs.got = "nil"
    /\ Len(backends) = MainBackends

\* C36: in the system main.go wires (Lb, the forwarder's error hook, the
\* health checks) every backend's active connections are 0 in every
\* reachable state; so a least-connections selection keeps the first
\* backend it finds alive, in insertion order, and that is the backend
\* GetNextPeer returns.
C36_CountersStayZero ==
    /\ [](\A b \in 1..Len(backends) : backends[b].activeConnections = 0)
    /\ [][lbKind = "least-connections" =>
             \A h \in Handlers :
                /\ (pc[h] = "select" /\ sel'[h].i = sel[h].i + 1) =>
                      sel'[h].selected =
                          IF sel[h].selected # NilBackend
                          THEN sel[h].selected
                          ELSE IF backends[sel[h].i + 1].alive
                               THEN sel[h].i + 1
                               ELSE NilBackend
                /\ (pc[h] = "select" /\ pc'[h] = "forward") =>
                      peer'[h] = sel[h].selected]_vars

\* Least connections with two alive backends: a second request is
\* dispatched to the first backend while a first request is in flight to
\* it.
C36_Witness ==
    /\ obs.op = "main"
    /\ lbKind = "least-connections"
    /\ Len(backends) = 2
    /\ backends[2].alive
    /\ \A h \in Handlers : pc[h] = "forward" /\ peer[h] = 1

\* --------------------------------------------------------------- SpecAlpha
\* One backend of a least-response-time pool built with any alpha, and any
\* sequence of UpdateResponseTime calls.  obs holds alpha (in hundredths),
\* the duration of the latest call, the EWMA before it, and whether the
\* EWMA has been nonzero.

InitAlpha ==
    /\ lbKind = "least-response-time"
    /\ backends = <<NewBackend(BackendURL(1), 1)>>
    /\ \E a \in Alphas : obs = [op |-> "alpha", alpha |-> a, d |-> 0,
                                 old |-> 0, nonzero |-> FALSE]
    /\ current = 0
    /\ last = NoCall
    /\ hist = <<>>
    /\ ConcIdle

AlphaUpdate ==
    /\ obs.op = "alpha"
    /\ \E d \in -1..MaxSample :
         /\ backends' = UpdateAt(obs.alpha, backends, 1, d)
         /\ obs' = [obs EXCEPT !.d = d,
                               !.old = backends[1].ewmaResponseTime,
                               !.nonzero = @ \/ backends'[1].ewmaResponseTime
                                                  # 0]
    /\ UNCHANGED <<lbKind, current, last, hist, concVars>>

NextAlpha == AlphaUpdate

SpecAlpha == InitAlpha /\ [][NextAlpha]_vars

\* ----------------------------------------------------- claims on SpecAlpha

\* C28: in every reachable state the backend's EWMA is >= 0, and once it
\* has been nonzero it is >= 1 in every later state, for any sequence of
\* UpdateResponseTime calls with any durations and any alpha in (0, 1].
C28_EwmaStaysPositive ==
    /\ backends[1].ewmaResponseTime >= 0
    /\ obs.nonzero => backends[1].ewmaResponseTime >= 1

\* A sample of 0 ns has just been blended into an EWMA of 1, with an alpha
\* below 1, and the EWMA is still 1.
C28_Witness ==
    /\ obs.nonzero
    /\ obs.d = 0
    /\ obs.old = 1
    /\ obs.alpha < AlphaDen
    /\ backends[1].ewmaResponseTime = 1

\* ---------------------------------------------------------------- SpecMutex
\* GetNextPeer statement by statement at the mutex: every s.mu.Lock() and
\* every s.mu.Unlock() of the handler and of its helper goroutine is a step
\* of its own, and an Unlock sets the mutex free whoever holds it.  The
\* handler's pc has, besides the values of Spec,
\*   "retPeer"  `return backend` is reached, the deferred Unlock is next,
\*   "unlock"   the helper is started, s.mu.Unlock() before select is next,
\*   "retNil"   case <-ctx.Done(): s.mu.Lock() is done, `return nil` with
\*              the deferred Unlock is next;
\* the helper has, besides the values of Spec,
\*   "locked"   its s.mu.Lock() is done, s.backendAvailable.Wait() is next,
\*   "relocked" Wait has taken the mutex again and returned.

ByHelper(h) == [kind |-> "helper", id |-> h]

\* SelectBackend has returned: with a backend the return statement is
\* reached; with nil waitDone is made and the helper goroutine is started.
GNP_Selected(h) ==
    /\ pc[h] = "select"
    /\ sel[h].done
    /\ sel' = [sel EXCEPT ![h] = SelIdle]
    /\ IF sel[h].selected # NilBackend
       THEN /\ peer' = [peer EXCEPT ![h] = sel[h].selected]
            /\ pc' = [pc EXCEPT ![h] = "retPeer"]
            /\ UNCHANGED helper
       ELSE /\ pc' = [pc EXCEPT ![h] = "unlock"]
            /\ helper' = [helper EXCEPT ![h] = "lock"]
            /\ UNCHANGED peer
    /\ UNCHANGED <<lbKind, backends, current, seqVars, mu, ctxDone, leaked,
                   hc>>

\* `return backend`: the deferred s.mu.Unlock() runs, and Lb enters
\* peer.ReverseProxy.ServeHTTP.
GNP_ReturnPeer(h) ==
    /\ pc[h] = "retPeer"
    /\ mu' = Free
    /\ pc' = [pc EXCEPT ![h] = "forward"]
    /\ UNCHANGED <<lbKind, backends, current, seqVars, sel, ctxDone, peer,
                   helper, leaked, hc>>

\* s.mu.Unlock() before the select statement.
GNP_Unlock(h) ==
    /\ pc[h] = "unlock"
    /\ mu' = Free
    /\ pc' = [pc EXCEPT ![h] = "wait"]
    /\ UNCHANGED <<lbKind, backends, current, seqVars, sel, ctxDone, peer,
                   helper, leaked, hc>>

\* GNP_CtxLock without its s.mu.Lock(): `case <-ctx.Done(): return nil`.
GNP_CtxNoLock(h) ==
    /\ pc[h] = "wait"
    /\ ctxDone[h]
    /\ pc' = [pc EXCEPT ![h] = "retNil"]
    /\ UNCHANGED <<lbKind, backends, current, seqVars, mu, sel, ctxDone,
                   peer, helper, leaked, hc>>

\* select: case <-ctx.Done(): s.mu.Lock().
GNP_CtxLock(h) ==
    /\ pc[h] = "wait"
    /\ ctxDone[h]
    /\ mu = Free
    /\ mu' = ByHandler(h)
    /\ pc' = [pc EXCEPT ![h] = "retNil"]
    /\ UNCHANGED <<lbKind, backends, current, seqVars, sel, ctxDone, peer,
                   helper, leaked, hc>>

\* `return nil`: the deferred s.mu.Unlock() runs.  The helper goroutine of
\* this call, unless it has finished, stays behind.
GNP_ReturnNil(h) ==
    /\ pc[h] = "retNil"
    /\ mu' = Free
    /\ pc' = [pc EXCEPT ![h] = "unavailable"]
    /\ helper' = [helper EXCEPT ![h] = "none"]
    /\ leaked' = IF helper[h] \in {"lock", "waiting"}
                 THEN [leaked EXCEPT ![helper[h]] = @ + 1]
                 ELSE leaked
    /\ UNCHANGED <<lbKind, backends, current, seqVars, sel, ctxDone, peer,
                   hc>>

\* The helper goroutine: s.mu.Lock().
Waiter_Lock(h) ==
    /\ helper[h] = "lock"
    /\ mu = Free
    /\ mu' = ByHelper(h)
    /\ helper' = [helper EXCEPT ![h] = "locked"]
    /\ UNCHANGED <<lbKind, backends, current, seqVars, pc, sel, ctxDone,
                   peer, leaked, hc>>

\* s.backendAvailable.Wait(): the goroutine joins the waiters, unlocks and
\* parks.
Waiter_Wait(h) ==
    /\ helper[h] = "locked"
    /\ mu' = Free
    /\ helper' = [helper EXCEPT ![h] = "waiting"]
    /\ UNCHANGED <<lbKind, backends, current, seqVars, pc, sel, ctxDone,
                   peer, leaked, hc>>

\* After a broadcast Wait takes the mutex again and returns.
Waiter_Relock(h) ==
    /\ helper[h] = "woken"
    /\ mu = Free
    /\ mu' = ByHelper(h)
    /\ helper' = [helper EXCEPT ![h] = "relocked"]
    /\ UNCHANGED <<lbKind, backends, current, seqVars, pc, sel, ctxDone,
                   peer, leaked, hc>>

\* s.mu.Unlock(); close(waitDone).
Waiter_Unlock(h) ==
    /\ helper[h] = "relocked"
    /\ mu' = Free
    /\ helper' = [helper EXCEPT ![h] = "closed"]
    /\ UNCHANGED <<lbKind, backends, current, seqVars, pc, sel, ctxDone,
                   peer, leaked, hc>>

NextMutex ==
    \/ \E h \in Handlers :
          \/ GNP_Lock(h)
          \/ GNP_SelectStep(h)
          \/ GNP_Selected(h)
          \/ GNP_ReturnPeer(h)
          \/ GNP_Unlock(h)
          \/ CtxCancel(h)
          \/ GNP_CtxLock(h)
          \/ GNP_ReturnNil(h)
          \/ GNP_Woken(h)
          \/ Lb_Unavailable(h)
          \/ Fwd_Done(h)
          \/ Fwd_Error(h)
    \/ \E h \in Handlers :
          \/ Waiter_Lock(h)
          \/ Waiter_Wait(h)
          \/ Waiter_Relock(h)
          \/ Waiter_Unlock(h)
    \/ LeakedNext
    \/ MarkerNext
    \/ HealthNext

SpecMutex == InitConc /\ [][NextMutex]_vars

\* Where a handler stands between a Lock and the Unlock that follows it.
HandlerHolds(h) == pc[h] \in {"select", "retPeer", "unlock", "retNil"}

HelperHolds(h) == helper[h] \in {"locked", "relocked"}

====
